---- MODULE Spec2Model ----
(***************************************************************************)
(* A model of the stolostron.core Ansible collection: the addon lifecycle  *)
(* helpers (addon_base.py), the policyset module (policyset.py) and the    *)
(* installer helpers (installer_utils.py).                                 *)
(*                                                                         *)
(* Python strings are sequences of one-character strings; the Python None  *)
(* is the one-element sequence NoneStr, which no string over Chars equals. *)
(***************************************************************************)
EXTENDS Integers, Sequences, FiniteSets, TLC

VARIABLES
    \* compare_version: its two arguments and what it returned
    ver_current, ver_target, ver_result

VARIABLES
    \* get_multi_cluster_hub and check_mch_version: what the hub answers
    \* (mch_env), the arguments (mch_args) and what the call did (mch_out)
    mch_env, mch_args, mch_out

VARIABLES
    \* check_mce_version: what the hub answers (mce_env), the arguments
    \* (mce_args) and what the call did (mce_out)
    mce_env, mce_args, mce_out

VARIABLES
    \* managedcluster_addon: the ManagedClusterAddOn on the hub (addon_hub), the
    \* module's parameters (addon_args), where the run is (addon_pc), the object
    \* its last get returned (addon_seen), the create and delete calls it made
    \* (addon_calls), how it ended (addon_out), and the runs before it
    \* (addon_hist)
    addon_hub, addon_args, addon_pc, addon_seen, addon_calls, addon_out, addon_hist

VARIABLES
    \* policyset: the PolicySet and the Policies on the hub (ps_hub), the module's
    \* parameters (ps_args), where the run is (ps_pc), the PolicySet as it was
    \* when the run began (ps_start), what ensure_all_policies returned
    \* (ps_names), the PolicySet that ensure_policyset got (ps_old), the patch it
    \* sent (ps_patch), the creates, patches and deletes of the run (ps_calls),
    \* and how the run ended (ps_out)
    ps_hub, ps_args, ps_pc, ps_start, ps_names, ps_old, ps_patch, ps_calls, ps_out

VARIABLES
    \* ensure_all_policies: the items of in_queue (pool_in_queue), its count of
    \* unfinished tasks (pool_unfinished_tasks), the names on out_queue
    \* (pool_out_queue), the Policy threads (pool_threads), where
    \* ensure_all_policies is (pool_main), the number of items get_filepath
    \* yields (pool_items) and of items put so far (pool_put), the list
    \* policy_names (pool_names), and for each item how often it was taken from
    \* in_queue (pool_taken) and how often task_done followed it (pool_done)
    pool_in_queue, pool_unfinished_tasks, pool_out_queue, pool_threads, pool_main,
    pool_items, pool_put, pool_names, pool_taken, pool_done

VARIABLES
    \* get_component_status and set_component_status: the MCH or MCE object
    \* (comp_obj), the arguments (comp_args), and what the last call did and the
    \* object it was given (comp_out)
    comp_obj, comp_args, comp_out

VARIABLES
    \* get_csv_version: the ClusterServiceVersion (csv_csv), the prefix (csv_prefix),
    \* and what the call returned (csv_out)
    csv_csv, csv_prefix, csv_out

VARIABLES
    \* optional libraries: the libraries that are not installed (imp_missing), the
    \* module that is run (imp_module), the statement it is at (imp_pc), the keys of
    \* its IMP_ERR (imp_err), whether it has issued an API call (imp_api), and how
    \* it ended (imp_out)
    imp_missing, imp_module, imp_pc, imp_err, imp_api, imp_out

VARIABLES
    \* managed_serviceaccount_rbac: the YAML documents of rbac_template (rbac_yaml),
    \* where the run is (rbac_pc), what get_rbac_resource_from_yaml returned
    \* (rbac_resources), what generate_rbac_manifest returned (rbac_manifest), the
    \* warnings so far (rbac_warnings), and how the run ended (rbac_out)
    rbac_yaml, rbac_pc, rbac_resources, rbac_manifest, rbac_warnings, rbac_out

VARIABLES
    \* wait_for_addon_available: its timeout, where it is, the seconds since
    \* start_time, the time at which the running watch was started, the last
    \* event of the watch, and what it returned
    wait_timeout, wait_pc, wait_clock, wait_watch_start, wait_event, wait_result

VARIABLES
    \* ocm_managedcluster inventory: the option cluster_groups, where parse is,
    \* the cluster group and the cluster that populate is at, and the groups,
    \* the hosts and the <<group, host>> memberships of the inventory
    inv_cluster_groups, inv_pc, inv_i, inv_j, inv_groups, inv_hosts, inv_members

VARIABLES
    \* fetch_clusters of the inventory plugin: the option cache, the argument
    \* cache of parse, the two attributes that parse sets, self._cache, where
    \* parse is, the number of calls made, and what the last call did
    fc_user_cache_setting, fc_cache_arg, fc_attempt_to_read_cache, fc_cache_needs_update, fc_cache, fc_pc, fc_calls, fc_last

VARIABLES
    \* cluster_management_addon for managed-serviceaccount: the MultiClusterEngine
    \* and the MultiClusterHub of the hub (None when there is none), the
    \* parameters of the module, where the run is, what it has done, and the runs
    \* that have ended in exit_json
    feat_mce, feat_mch, feat_args, feat_pc, feat_run, feat_log

verVars == <<ver_current, ver_target, ver_result>>

mchVars == <<mch_env, mch_args, mch_out>>

mceVars == <<mce_env, mce_args, mce_out>>

addonVars ==
    <<addon_hub, addon_args, addon_pc, addon_seen, addon_calls, addon_out, addon_hist>>

psVars ==
    <<ps_hub, ps_args, ps_pc, ps_start, ps_names, ps_old, ps_patch, ps_calls, ps_out>>

poolVars ==
    <<pool_in_queue, pool_unfinished_tasks, pool_out_queue, pool_threads, pool_main,
      pool_items, pool_put, pool_names, pool_taken, pool_done>>

compVars ==
    <<comp_obj, comp_args, comp_out>>

csvVars ==
    <<csv_csv, csv_prefix, csv_out>>

impVars ==
    <<imp_missing, imp_module, imp_pc, imp_err, imp_api, imp_out>>

rbacVars ==
    <<rbac_yaml, rbac_pc, rbac_resources, rbac_manifest, rbac_warnings, rbac_out>>

waitVars ==
    <<wait_timeout, wait_pc, wait_clock, wait_watch_start, wait_event, wait_result>>

invVars ==
    <<inv_cluster_groups, inv_pc, inv_i, inv_j, inv_groups, inv_hosts, inv_members>>

fcVars ==
    <<fc_user_cache_setting, fc_cache_arg, fc_attempt_to_read_cache,
      fc_cache_needs_update, fc_cache, fc_pc, fc_calls, fc_last>>

featVars ==
    <<feat_mce, feat_mch, feat_args, feat_pc, feat_run, feat_log>>

vars ==
    <<verVars, mchVars, mceVars, addonVars, psVars, poolVars, compVars, csvVars,
      impVars, rbacVars, waitVars, invVars, fcVars, featVars>>

\* What the actions of one part of the model leave alone: the other parts.
verOthers ==
    <<mchVars, mceVars, addonVars, psVars, poolVars, compVars, csvVars, impVars,
      rbacVars, waitVars, invVars, fcVars, featVars>>

mchOthers ==
    <<verVars, mceVars, addonVars, psVars, poolVars, compVars, csvVars, impVars,
      rbacVars, waitVars, invVars, fcVars, featVars>>

mceOthers ==
    <<verVars, mchVars, addonVars, psVars, poolVars, compVars, csvVars, impVars,
      rbacVars, waitVars, invVars, fcVars, featVars>>

addonOthers ==
    <<verVars, mchVars, mceVars, psVars, poolVars, compVars, csvVars, impVars,
      rbacVars, waitVars, invVars, fcVars, featVars>>

psOthers ==
    <<verVars, mchVars, mceVars, addonVars, poolVars, compVars, csvVars, impVars,
      rbacVars, waitVars, invVars, fcVars, featVars>>

poolOthers ==
    <<verVars, mchVars, mceVars, addonVars, psVars, compVars, csvVars, impVars,
      rbacVars, waitVars, invVars, fcVars, featVars>>

compOthers ==
    <<verVars, mchVars, mceVars, addonVars, psVars, poolVars, csvVars, impVars,
      rbacVars, waitVars, invVars, fcVars, featVars>>

csvOthers ==
    <<verVars, mchVars, mceVars, addonVars, psVars, poolVars, compVars, impVars,
      rbacVars, waitVars, invVars, fcVars, featVars>>

impOthers ==
    <<verVars, mchVars, mceVars, addonVars, psVars, poolVars, compVars, csvVars,
      rbacVars, waitVars, invVars, fcVars, featVars>>

rbacOthers ==
    <<verVars, mchVars, mceVars, addonVars, psVars, poolVars, compVars, csvVars,
      impVars, waitVars, invVars, fcVars, featVars>>

waitOthers ==
    <<verVars, mchVars, mceVars, addonVars, psVars, poolVars, compVars, csvVars,
      impVars, rbacVars, invVars, fcVars, featVars>>

invOthers ==
    <<verVars, mchVars, mceVars, addonVars, psVars, poolVars, compVars, csvVars,
      impVars, rbacVars, waitVars, fcVars, featVars>>

fcOthers ==
    <<verVars, mchVars, mceVars, addonVars, psVars, poolVars, compVars, csvVars,
      impVars, rbacVars, waitVars, invVars, featVars>>

featOthers ==
    <<verVars, mchVars, mceVars, addonVars, psVars, poolVars, compVars, csvVars,
      impVars, rbacVars, waitVars, invVars, fcVars>>

(***************************************************************************)
(* Bounds of the model.                                                    *)
(***************************************************************************)
MaxVerLen == 6

MaxCsvs == 3

MaxRuns == 2

MaxFiles == 2

MaxThreads == 2

MaxItems == 3

MaxComponents == 2

MaxNameLen == 5

MaxDocs == 3

\* The largest timeout of wait_for_addon_available, in seconds.
MaxTimeout == 3

\* The largest number of entries of cluster_groups.
MaxGroups == 2

\* The largest number of calls of fetch_clusters in one parse.
MaxCalls == 3

(***************************************************************************)
(* Values: the Python None of a string and of a MultiClusterHub, two       *)
(* version strings, and what each part of the model holds before and       *)
(* while another part runs.                                                *)
(***************************************************************************)
NoneStr == <<"None">>

NoneMch == [name |-> "None", version |-> NoneStr]

V100 == <<"1", ".", "0", ".", "0">>

V110 == <<"1", ".", "1", ".", "0">>

VerIdle ==
    /\ ver_current = NoneStr
    /\ ver_target = NoneStr
    /\ ver_result = "none"

NoMchOut == [op |-> "none", failed |-> FALSE, warned |-> FALSE, ret |-> NoneMch]

MchIdle ==
    /\ mch_env = [list |-> "ok", items |-> << >>, get |-> "ok"]
    /\ mch_args = [ignore_not_found |-> FALSE, warn_no_permission |-> FALSE,
                   required_version |-> V100]
    /\ mch_out = NoMchOut

NoMceOut == [done |-> FALSE, failed |-> FALSE, warned |-> FALSE]

MceIdle ==
    /\ mce_env = [list |-> "ok", items |-> << >>, get_fail_at |-> 0]
    /\ mce_args = [required_version |-> V100, warn_no_permission |-> FALSE]
    /\ mce_out = NoMceOut

\* No ManagedClusterAddOn: what get_managed_cluster_addon returns as None.
NoneAddon == [exists |-> FALSE, has_status |-> FALSE, conditions |-> << >>]

NoAddonOut == [kind |-> "none", changed |-> FALSE]

NoAddonCalls == [found |-> FALSE, creates |-> 0, deletes |-> 0, status |-> "none"]

AddonIdle ==
    /\ addon_hub = NoneAddon
    /\ addon_args = [state |-> "present", wait |-> FALSE]
    /\ addon_pc = "done"
    /\ addon_seen = NoneAddon
    /\ addon_calls = NoAddonCalls
    /\ addon_out = NoAddonOut
    /\ addon_hist = [run |-> 0, prev_state |-> "none", prev_out |-> NoAddonOut,
                     dirty |-> FALSE, prev_dirty |-> FALSE]

\* No PolicySet: the get raises NotFoundError.
NonePolicySet ==
    [exists |-> FALSE, labelled |-> FALSE, policies |-> {}, description |-> ""]

NoPatch == [sent |-> FALSE, has_policies |-> FALSE, policies |-> {},
            has_description |-> FALSE, description |-> ""]

NoPsOut == [kind |-> "none", at |-> "none"]

PsIdle ==
    /\ ps_hub = [set |-> NonePolicySet, policies |-> << >>]
    /\ ps_args = [manifest_dir |-> << >>, state |-> "present", description |-> ""]
    /\ ps_pc = "done"
    /\ ps_start = NonePolicySet
    /\ ps_names = {}
    /\ ps_old = NonePolicySet
    /\ ps_patch = NoPatch
    /\ ps_calls = {}
    /\ ps_out = NoPsOut

PoolIdle ==
    /\ pool_in_queue = << >>
    /\ pool_unfinished_tasks = 0
    /\ pool_out_queue = << >>
    /\ pool_threads = << >>
    /\ pool_main = "returned"
    /\ pool_items = 0
    /\ pool_put = 0
    /\ pool_names = << >>
    /\ pool_taken = << >>
    /\ pool_done = << >>

\* A Python object that get_component_status and set_component_status are
\* given: obj is None or a dict; spec and overrides are a missing key, None or
\* a dict; components is a missing key, None, a string (s) or a list (l).
NoneObj ==
    [obj |-> "none", spec |-> "missing", overrides |-> "missing",
     components |-> "missing", s |-> << >>, l |-> << >>, rest |-> "rest"]

NoCompOut == [op |-> "none", out |-> "none", value |-> FALSE, before |-> NoneObj]

CompIdle ==
    /\ comp_obj = NoneObj
    /\ comp_args = [component_name |-> "a", enabled |-> FALSE]
    /\ comp_out = NoCompOut

\* The Python None in the place of a ClusterServiceVersion.
NoneCsv ==
    [is_none |-> TRUE, has_metadata |-> FALSE, name |-> NoneStr, namespace |-> NoneStr,
     spec_version |-> NoneStr]

NoCsvOut == [called |-> FALSE, version |-> NoneStr]

CsvIdle ==
    /\ csv_csv = NoneCsv
    /\ csv_prefix = << >>
    /\ csv_out = NoCsvOut

NoImpOut == [kind |-> "none", at |-> "none"]

ImpIdle ==
    /\ imp_missing = {}
    /\ imp_module = "none"
    /\ imp_pc = [phase |-> "done", i |-> 0]
    /\ imp_err = {}
    /\ imp_api = FALSE
    /\ imp_out = NoImpOut

\* rbac_resources: for each kind, the accepted resources in the order in which
\* they were found.
NoRbacResources ==
    [Role |-> << >>, ClusterRole |-> << >>, RoleBinding |-> << >>,
     ClusterRoleBinding |-> << >>]

NoRbacOut == [kind |-> "none", at |-> "none"]

RbacIdle ==
    /\ rbac_yaml = << >>
    /\ rbac_pc = "done"
    /\ rbac_resources = NoRbacResources
    /\ rbac_manifest = << >>
    /\ rbac_warnings = {}
    /\ rbac_out = NoRbacOut

\* No event of the watch was seen yet.
NoEvent == [type |-> "none", name |-> "none", has_status |-> FALSE, conditions |-> << >>]

WaitIdle ==
    /\ wait_timeout = 0
    /\ wait_pc = "done"
    /\ wait_clock = 0
    /\ wait_watch_start = 0
    /\ wait_event = NoEvent
    /\ wait_result = FALSE

\* The groups of a new inventory of Ansible.
BuiltinGroups == {"all", "ungrouped"}

InvIdle ==
    /\ inv_cluster_groups = << >>
    /\ inv_pc = "done"
    /\ inv_i = 1
    /\ inv_j = 1
    /\ inv_groups = BuiltinGroups
    /\ inv_hosts = {}
    /\ inv_members = {}

\* No call of fetch_clusters was made yet.
NoFetch ==
    [key |-> "none", present |-> FALSE, cached |-> "absent", read |-> FALSE,
     queried |-> FALSE, wrote |-> FALSE, returned |-> "none"]

FcIdle ==
    /\ fc_user_cache_setting = FALSE
    /\ fc_cache_arg = FALSE
    /\ fc_attempt_to_read_cache = FALSE
    /\ fc_cache_needs_update = FALSE
    /\ fc_cache = << >>
    /\ fc_pc = "done"
    /\ fc_calls = 0
    /\ fc_last = NoFetch

\* What a run of enable_feature or disable_feature has done so far, with the
\* two CRs as they were when the run began.
NoRun ==
    [changed |-> FALSE, patched |-> {}, mce |-> NoneObj, mch |-> NoneObj]

FeatIdle ==
    /\ feat_mce = NoneObj
    /\ feat_mch = NoneObj
    /\ feat_args = [state |-> "present", wait |-> FALSE]
    /\ feat_pc = "done"
    /\ feat_run = NoRun
    /\ feat_log = << >>

(***************************************************************************)
(* Strings.                                                                *)
(***************************************************************************)
Chars == {"0", "1", ".", "-"}

Digits == {"0", "1", "2", "3", "4", "5", "6", "7", "8", "9"}

DigitVal(c) ==
    CASE c = "0" -> 0 [] c = "1" -> 1 [] c = "2" -> 2 [] c = "3" -> 3
      [] c = "4" -> 4 [] c = "5" -> 5 [] c = "6" -> 6 [] c = "7" -> 7
      [] c = "8" -> 8 [] c = "9" -> 9

\* All strings over Chars of length at most n.
StringsUpTo(n) == UNION {[1..k -> Chars] : k \in 0..n}

\* s[i..j], both inclusive, 1-based; empty when j < i.
Slice(s, i, j) == [k \in 1..(j - i + 1) |-> s[i + k - 1]]

\* Python int() of a string of decimal digits.
RECURSIVE int(_)
int(s) ==
    IF Len(s) = 0 THEN 0
    ELSE 10 * int(Slice(s, 1, Len(s) - 1)) + DigitVal(s[Len(s)])

\* The end (exclusive) of the longest run of digits of s that starts at i.
RECURSIVE DigitRunEnd(_, _)
DigitRunEnd(s, i) ==
    IF i <= Len(s) /\ s[i] \in Digits THEN DigitRunEnd(s, i + 1) ELSE i

(***************************************************************************)
(* installer_utils.compare_version                                         *)
(***************************************************************************)
NoMatch == [matched |-> FALSE]

\* Where the group 0|[1-9]\d* can end (exclusive) when it starts at i and the
\* next thing to match is a literal '.': the alternative 0 is one character,
\* [1-9]\d* backtracks from its longest run, and every shorter run is followed
\* by a digit, so only the longest run can be followed by '.'. 0 when it cannot.
NumThenDot(s, i) ==
    IF i > Len(s) \/ s[i] \notin Digits THEN 0
    ELSE LET e == IF s[i] = "0" THEN i + 1 ELSE DigitRunEnd(s, i)
         IN  IF e <= Len(s) /\ s[e] = "." THEN e ELSE 0

\* Where the group 0|[1-9]\d* ends when it starts at i and is followed by .*,
\* which matches anything: the first alternative that matches wins, so a
\* leading 0 is the whole group, and [1-9]\d* is greedy. 0 when it cannot match.
NumThenAny(s, i) ==
    IF i > Len(s) \/ s[i] \notin Digits THEN 0
    ELSE IF s[i] = "0" THEN i + 1 ELSE DigitRunEnd(s, i)

\* semver_regex with the minor and patch groups optional, a missing one read as 0.
semver_regex_matchWithOptionalParts(s) ==
    LET e1 == NumThenAny(s, 1)
        e2 == IF e1 # 0 /\ e1 <= Len(s) /\ s[e1] = "." THEN NumThenAny(s, e1 + 1) ELSE 0
        e3 == IF e2 # 0 /\ e2 <= Len(s) /\ s[e2] = "." THEN NumThenAny(s, e2 + 1) ELSE 0
    IN  IF e1 = 0 THEN NoMatch
        ELSE [matched |-> TRUE,
              major |-> Slice(s, 1, e1 - 1),
              minor |-> IF e2 = 0 THEN <<"0">> ELSE Slice(s, e1 + 1, e2 - 1),
              patch |-> IF e3 = 0 THEN <<"0">> ELSE Slice(s, e2 + 1, e3 - 1)]

\* semver_regex.match(s).groupdict(): the regular expression
\* ^(?P<major>0|[1-9]\d*)(\.(?P<minor>0|[1-9]\d*)\.(?P<patch>0|[1-9]\d*).*)
semver_regex_match(s) ==
    LET e1 == NumThenDot(s, 1)
        e2 == IF e1 = 0 THEN 0 ELSE NumThenDot(s, e1 + 1)
        e3 == IF e2 = 0 THEN 0 ELSE NumThenAny(s, e2 + 1)
    IN  IF e3 = 0 THEN NoMatch
        ELSE [matched |-> TRUE,
              major |-> Slice(s, 1, e1 - 1),
              minor |-> Slice(s, e1 + 1, e2 - 1),
              patch |-> Slice(s, e2 + 1, e3 - 1)]

\* compare_fields with equal versions taken for lower ones.
compare_fieldsStrict(curr, target) ==
    IF int(curr.major) # int(target.major) THEN int(curr.major) > int(target.major)
    ELSE IF int(curr.minor) # int(target.minor) THEN int(curr.minor) > int(target.minor)
    ELSE int(curr.patch) > int(target.patch)

\* The loop over compare_order = ['major', 'minor', 'patch'].
compare_fields(curr, target) ==
    IF int(curr.major) # int(target.major) THEN int(curr.major) > int(target.major)
    ELSE IF int(curr.minor) # int(target.minor) THEN int(curr.minor) > int(target.minor)
    ELSE IF int(curr.patch) # int(target.patch) THEN int(curr.patch) > int(target.patch)
    ELSE TRUE

compare_version(current_version, target_version) ==
    IF current_version = NoneStr \/ target_version = NoneStr THEN FALSE
    ELSE LET curr_match == semver_regex_match(current_version)
             target_match == semver_regex_match(target_version)
         IN  IF ~curr_match.matched THEN FALSE
             ELSE IF ~target_match.matched THEN FALSE
             ELSE compare_fields(curr_match, target_match)

(***************************************************************************)
(* compare_version applied to bounded inputs.                              *)
(***************************************************************************)
TargetNums == {<<"0">>, <<"1">>}

TargetPatches == {<<"0">>, <<"1">>, <<"1", "0">>}

TargetSuffixes == {<< >>, <<"-", "1">>}

TargetVersions ==
    {a \o <<".">> \o b \o <<".">> \o c \o x :
        a \in TargetNums, b \in TargetNums, c \in TargetPatches, x \in TargetSuffixes}
    \cup {NoneStr}

InitVersion ==
    /\ ver_current \in StringsUpTo(MaxVerLen) \cup {NoneStr}
    /\ ver_target \in TargetVersions
    /\ ver_result = "none"
    /\ MchIdle
    /\ MceIdle
    /\ AddonIdle
    /\ PsIdle
    /\ PoolIdle
    /\ CompIdle
    /\ CsvIdle
    /\ ImpIdle
    /\ RbacIdle
    /\ WaitIdle
    /\ InvIdle
    /\ FcIdle
    /\ FeatIdle

CompareVersion ==
    /\ ver_result = "none"
    /\ ver_result' = IF compare_version(ver_current, ver_target)
                      THEN "True" ELSE "False"
    /\ UNCHANGED <<ver_current, ver_target, verOthers>>

NextVersion == CompareVersion

SpecVersion == InitVersion /\ [][NextVersion]_vars

(***************************************************************************)
(* Semantic versions, stated without the regular expression.               *)
(***************************************************************************)
AllDigits(s, i, j) == i <= j /\ \A k \in i..j : s[k] \in Digits

\* A numeric identifier: digits, no leading zero.
IsNumId(s, i, j) == AllDigits(s, i, j) /\ (i = j \/ s[i] # "0")

\* <<i, j, k>>: major is s[1..i], minor s[i+2..j], patch s[j+2..k], and what
\* follows the patch is empty or a pre-release or build suffix.
SemverSplits(s) ==
    {sp \in (1..Len(s)) \X (1..Len(s)) \X (1..Len(s)) :
        /\ sp[1] + 2 <= sp[2] /\ sp[2] + 2 <= sp[3]
        /\ IsNumId(s, 1, sp[1]) /\ s[sp[1] + 1] = "."
        /\ IsNumId(s, sp[1] + 2, sp[2]) /\ s[sp[2] + 1] = "."
        /\ IsNumId(s, sp[2] + 2, sp[3])
        /\ (sp[3] = Len(s) \/ s[sp[3] + 1] \in {"-", "+"})}

IsSemver(s) == s # NoneStr /\ SemverSplits(s) # {}

SemverSplit(s) == CHOOSE sp \in SemverSplits(s) : TRUE

SemverTriple(s) ==
    LET sp == SemverSplit(s)
    IN  <<int(Slice(s, 1, sp[1])), int(Slice(s, sp[1] + 2, sp[2])),
          int(Slice(s, sp[2] + 2, sp[3]))>>

SemverSuffix(s) == Slice(s, SemverSplit(s)[3] + 1, Len(s))

TripleGE(a, b) ==
    \/ a[1] > b[1]
    \/ a[1] = b[1] /\ a[2] > b[2]
    \/ a[1] = b[1] /\ a[2] = b[2] /\ a[3] >= b[3]

\* A run of digits, a dot, a run of digits, a dot and a run of digits start s.
HasThreeParts(s) ==
    \E i, j, k \in 1..Len(s) :
        /\ i + 2 <= j /\ j + 2 <= k
        /\ AllDigits(s, 1, i) /\ s[i + 1] = "."
        /\ AllDigits(s, i + 2, j) /\ s[j + 1] = "."
        /\ AllDigits(s, j + 2, k)

\* C9: for two versions MAJOR.MINOR.PATCH with an optional pre-release or build
\* suffix, compare_version returns True exactly when the (major, minor, patch)
\* triple of the current version is >= that of the target, in numeric
\* lexicographic order; the suffixes play no part in the result.
CompareVersionIsTripleOrder ==
    (ver_result # "none" /\ IsSemver(ver_current) /\ IsSemver(ver_target))
        => ((ver_result = "True")
              <=> TripleGE(SemverTriple(ver_current), SemverTriple(ver_target)))

\* Equal triples, different suffixes, and the answer is True.
CompareVersionSuffixCase ==
    /\ ver_result = "True"
    /\ IsSemver(ver_current) /\ IsSemver(ver_target)
    /\ SemverTriple(ver_current) = SemverTriple(ver_target)
    /\ SemverSuffix(ver_current) # << >>
    /\ SemverSuffix(ver_target) = << >>

MchObjects == [name : {"mch"}, version : {NoneStr, V100, V110}]

\* mch_api = resources.get(...); mch_list = mch_api.get()
ListOutcomes ==
    {"ok", "ResourceNotFoundError", "NotFoundError", "UnauthorizedError", "ForbiddenError"}

\* mch_api.get(name=..., namespace=...)
GetOutcomes == {"ok", "NotFoundError", "ForbiddenError", "DynamicApiError"}

IsDynamicApiError(e) ==
    e \in {"NotFoundError", "UnauthorizedError", "ForbiddenError", "DynamicApiError"}

\* [failed: fail_json was called, warned: module.warn was called, ret: what is
\* returned when the module goes on]
get_multi_cluster_hub(env, module, ignore_not_found, warn_no_permission) ==
    IF env.list \in {"ResourceNotFoundError", "NotFoundError"}
    THEN [failed |-> ~ignore_not_found, warned |-> FALSE, ret |-> NoneMch]
    ELSE IF env.list \in {"UnauthorizedError", "ForbiddenError"}
    THEN [failed |-> ~warn_no_permission, warned |-> warn_no_permission, ret |-> NoneMch]
    ELSE IF ~ignore_not_found /\ Len(env.items) < 1
    THEN [failed |-> TRUE, warned |-> FALSE, ret |-> NoneMch]
    ELSE IF Len(env.items) < 1
    THEN [failed |-> FALSE, warned |-> FALSE, ret |-> NoneMch]
    ELSE IF IsDynamicApiError(env.get)
    THEN [failed |-> TRUE, warned |-> FALSE, ret |-> NoneMch]
    ELSE [failed |-> FALSE, warned |-> FALSE, ret |-> env.items[1]]

get_mch_version(mch) ==
    IF mch = NoneMch THEN NoneStr ELSE mch.version

\* [failed, warned] of check_mch_version
check_mch_version(env, module, required_version) ==
    LET got == get_multi_cluster_hub(env, module, FALSE, TRUE)
        version == get_mch_version(got.ret)
    IN  IF got.failed THEN [failed |-> TRUE, warned |-> got.warned]
        ELSE IF got.ret = NoneMch THEN [failed |-> FALSE, warned |-> TRUE]
        ELSE IF version = NoneStr THEN [failed |-> FALSE, warned |-> TRUE]
        ELSE IF ~compare_version(version, required_version)
        THEN [failed |-> TRUE, warned |-> got.warned]
        ELSE [failed |-> FALSE, warned |-> got.warned]

MchEnvs ==
    [list : ListOutcomes,
     items : {<< >>} \cup {<<m>> : m \in MchObjects}
               \cup {<<m, n>> : m \in MchObjects, n \in MchObjects},
     get : GetOutcomes]

MchArgs ==
    [ignore_not_found : BOOLEAN, warn_no_permission : BOOLEAN,
     required_version : {V100, V110}]

InitMch ==
    /\ mch_env \in MchEnvs
    /\ mch_args \in MchArgs
    /\ mch_out = NoMchOut
    /\ VerIdle
    /\ MceIdle
    /\ AddonIdle
    /\ PsIdle
    /\ PoolIdle
    /\ CompIdle
    /\ CsvIdle
    /\ ImpIdle
    /\ RbacIdle
    /\ WaitIdle
    /\ InvIdle
    /\ FcIdle
    /\ FeatIdle

GetMultiClusterHub ==
    /\ mch_out.op = "none"
    /\ LET r == get_multi_cluster_hub(mch_env, "module", mch_args.ignore_not_found,
                                      mch_args.warn_no_permission)
       IN  mch_out' = [op |-> "get_multi_cluster_hub", failed |-> r.failed,
                       warned |-> r.warned, ret |-> r.ret]
    /\ UNCHANGED <<mch_env, mch_args, mchOthers>>

CheckMchVersion ==
    /\ mch_out.op = "none"
    /\ LET r == check_mch_version(mch_env, "module", mch_args.required_version)
       IN  mch_out' = [op |-> "check_mch_version", failed |-> r.failed,
                       warned |-> r.warned, ret |-> NoneMch]
    /\ UNCHANGED <<mch_env, mch_args, mchOthers>>

NextMch == GetMultiClusterHub \/ CheckMchVersion

SpecMch == InitMch /\ [][NextMch]_vars

\* The MultiClusterHub kind or instance does not exist at one of the API calls
\* that get_multi_cluster_hub reaches.
MchNotFound(env) ==
    \/ env.list \in {"ResourceNotFoundError", "NotFoundError"}
    \/ env.list = "ok" /\ Len(env.items) < 1
    \/ env.list = "ok" /\ Len(env.items) >= 1 /\ env.get = "NotFoundError"

MchNoPermission(env) == env.list \in {"UnauthorizedError", "ForbiddenError"}

MchNoVersion(env) ==
    env.list = "ok" /\ Len(env.items) >= 1 /\ env.get = "ok"
        /\ env.items[1].version = NoneStr

\* C7: check_mch_version calls fail_json only when the MultiClusterHub's
\* current version is lower than required_version; when the MCH is not found,
\* has no status.currentVersion, or may not be listed, it warns and returns
\* without failing.
CheckMchVersionOnlyWarns ==
    mch_out.op = "check_mch_version" =>
        /\ mch_out.failed =>
            /\ mch_env.list = "ok" /\ Len(mch_env.items) >= 1 /\ mch_env.get = "ok"
            /\ mch_env.items[1].version # NoneStr
            /\ ~compare_version(mch_env.items[1].version, mch_args.required_version)
        /\ (MchNotFound(mch_env) \/ MchNoPermission(mch_env) \/ MchNoVersion(mch_env))
              => (mch_out.warned /\ ~mch_out.failed)

\* C8: with ignore_not_found set, get_multi_cluster_hub returns None and does
\* not call fail_json whenever the MultiClusterHub kind or instance does not
\* exist at the resource lookup, the list or the follow-up get by name.
GetMchIgnoresNotFound ==
    (mch_out.op = "get_multi_cluster_hub" /\ mch_args.ignore_not_found
       /\ MchNotFound(mch_env))
        => (~mch_out.failed /\ mch_out.ret = NoneMch)

(***************************************************************************)
(* installer_utils.get_csv_version and check_mce_version.                  *)
(***************************************************************************)
MCE == <<"m", "u", "l", "t", "i", "c", "l", "u", "s", "t", "e", "r", "-",
         "e", "n", "g", "i", "n", "e">>

\* Python's sub in s.
Contains(s, sub) ==
    \E i \in 1..(Len(s) - Len(sub) + 1) : Slice(s, i, i + Len(sub) - 1) = sub

\* get_csv_version that takes every remainder of the name for a version.
get_csv_versionAnyRemainder(csv, prefix) ==
    IF csv.is_none THEN NoneStr
    ELSE IF csv.spec_version # NoneStr /\ Len(csv.spec_version) > 0
    THEN csv.spec_version
    ELSE IF \/ csv.name = NoneStr
            \/ Len(csv.name) < Len(prefix) + 2
            \/ Slice(csv.name, 1, Len(prefix) + 2) # prefix \o <<".", "v">>
    THEN NoneStr
    ELSE Slice(csv.name, Len(prefix) + 3, Len(csv.name))

\* A ClusterServiceVersion: is_none says whether it is the Python None,
\* has_metadata whether item.metadata is there; name, namespace and
\* spec_version (spec.version) are NoneStr when missing.
get_csv_version(csv, prefix) ==
    IF csv.is_none THEN NoneStr
    ELSE IF csv.spec_version # NoneStr /\ Len(csv.spec_version) > 0
    THEN csv.spec_version
    ELSE LET name == csv.name
         IN  IF \/ name = NoneStr
                \/ Len(name) < Len(prefix) + 2
                \/ Slice(name, 1, Len(prefix) + 2) # prefix \o <<".", "v">>
             THEN NoneStr
             ELSE LET version == Slice(name, Len(prefix) + 3, Len(name))
                  IN  IF Len(version) > 0 /\ version[1] \in Digits THEN version
                      ELSE NoneStr

\* The items of the list that the loop does not skip before the get.
IsMceCsv(item) ==
    /\ item.has_metadata
    /\ item.name # NoneStr
    /\ item.namespace # NoneStr
    /\ Contains(item.name, MCE)

\* if current_version is None or compare_version(version, current_version)
keep_version(version, current_version) ==
    IF current_version = NoneStr \/ compare_version(version, current_version)
    THEN version ELSE current_version

\* The loop over csv_list.items from item idx on; get_fail_at is the item whose
\* csv_api.get raises DynamicApiError (0: none). [failed, current_version]
RECURSIVE scan_csvs(_, _, _, _)
scan_csvs(items, idx, current_version, get_fail_at) ==
    IF idx > Len(items) THEN [failed |-> FALSE, current_version |-> current_version]
    ELSE IF ~IsMceCsv(items[idx])
    THEN scan_csvs(items, idx + 1, current_version, get_fail_at)
    ELSE IF get_fail_at = idx
    THEN [failed |-> TRUE, current_version |-> current_version]
    ELSE LET version == get_csv_version(items[idx], MCE)
         IN  IF version = NoneStr
             THEN scan_csvs(items, idx + 1, current_version, get_fail_at)
             ELSE scan_csvs(items, idx + 1, keep_version(version, current_version),
                            get_fail_at)

\* [failed, warned, current_version] of check_mce_version
check_mce_version(env, module, required_version, warn_no_permission) ==
    IF env.list \in {"UnauthorizedError", "ForbiddenError"}
    THEN [failed |-> ~warn_no_permission, warned |-> warn_no_permission,
          current_version |-> NoneStr]
    ELSE IF env.list = "DynamicApiError"
    THEN [failed |-> TRUE, warned |-> FALSE, current_version |-> NoneStr]
    ELSE LET scan == scan_csvs(env.items, 1, NoneStr, env.get_fail_at)
         IN  IF scan.failed
             THEN [failed |-> TRUE, warned |-> FALSE,
                   current_version |-> scan.current_version]
             ELSE IF scan.current_version = NoneStr
             THEN [failed |-> TRUE, warned |-> FALSE, current_version |-> NoneStr]
             ELSE [failed |-> ~compare_version(scan.current_version, required_version),
                   warned |-> FALSE, current_version |-> scan.current_version]

Csv(name, namespace, spec_version) ==
    [is_none |-> FALSE, has_metadata |-> TRUE, name |-> name, namespace |-> namespace,
     spec_version |-> spec_version]

\* The ClusterServiceVersions the hub may list.
CsvObjects ==
    {Csv(MCE \o <<".", "v">> \o V110, <<"n">>, NoneStr),
     Csv(MCE \o <<".", "v">> \o V100, <<"n">>, << >>),
     Csv(MCE \o <<".", "v", "1">>, <<"n">>, NoneStr),
     Csv(MCE \o <<".", "v">> \o V100, <<"n">>, <<"1", ".", "0", ".", "1">>),
     Csv(<<"a">> \o MCE \o <<".", "v">> \o V110, <<"n">>, NoneStr),
     Csv(<<"o", ".", "v">> \o V110, <<"n">>, V110),
     Csv(MCE \o <<".", "v">> \o V110, NoneStr, NoneStr),
     [is_none |-> FALSE, has_metadata |-> FALSE, name |-> NoneStr,
      namespace |-> NoneStr, spec_version |-> V110]}

CsvLists == UNION {[1..n -> CsvObjects] : n \in 0..MaxCsvs}

MceEnvs ==
    {[list |-> l, items |-> it, get_fail_at |-> g] :
        l \in {"ok"}, it \in CsvLists, g \in 0..MaxCsvs}
    \cup {[list |-> l, items |-> << >>, get_fail_at |-> 0] :
        l \in {"UnauthorizedError", "ForbiddenError", "DynamicApiError"}}

MceArgs == [required_version : {V100, V110}, warn_no_permission : BOOLEAN]

InitMce ==
    /\ mce_env \in MceEnvs
    /\ mce_args \in MceArgs
    /\ mce_out = NoMceOut
    /\ VerIdle
    /\ MchIdle
    /\ AddonIdle
    /\ PsIdle
    /\ PoolIdle
    /\ CompIdle
    /\ CsvIdle
    /\ ImpIdle
    /\ RbacIdle
    /\ WaitIdle
    /\ InvIdle
    /\ FcIdle
    /\ FeatIdle

CheckMceVersion ==
    /\ ~mce_out.done
    /\ LET r == check_mce_version(mce_env, "module", mce_args.required_version,
                                  mce_args.warn_no_permission)
       IN  mce_out' = [done |-> TRUE, failed |-> r.failed, warned |-> r.warned]
    /\ UNCHANGED <<mce_env, mce_args, mceOthers>>

NextMce == CheckMceVersion

SpecMce == InitMce /\ [][NextMce]_vars

\* The versions that the ClusterServiceVersions named after multicluster-engine
\* yield, whatever their order in the list.
MceVersions(items) ==
    {get_csv_version(items[i], MCE) : i \in {j \in 1..Len(items) : IsMceCsv(items[j])}}
        \ {NoneStr}

\* C6: check_mce_version compares required_version with the highest version
\* among the ClusterServiceVersions whose name contains multicluster-engine and
\* that yield a version, whatever the order of the list: it calls fail_json
\* exactly when there is no such version or none of them reaches
\* required_version.
CheckMceVersionUsesHighest ==
    (mce_out.done /\ mce_env.list = "ok" /\ mce_env.get_fail_at = 0)
        => (mce_out.failed
              <=> ~\E v \in MceVersions(mce_env.items) :
                      compare_version(v, mce_args.required_version))

(***************************************************************************)
(* addon_base.enable_managed_cluster_addon and                             *)
(* disable_managed_cluster_addon, one step for each call to the hub, with  *)
(* the addon controller and other users of the hub acting in between.      *)
(* exit_json and fail_json end the module.                                 *)
(***************************************************************************)
CondTypes == {"Available", "Progressing"}

CondStatuses == {"True", "False"}

Conds == [type : CondTypes, status : CondStatuses]

\* status.conditions holds at most one condition of each type.
CondLists ==
    {<< >>} \cup {<<c>> : c \in Conds}
        \cup {cs \in {<<c, d>> : c \in Conds, d \in Conds} : cs[1].type # cs[2].type}

AddonObjects ==
    {[exists |-> TRUE, has_status |-> FALSE, conditions |-> << >>]}
        \cup {[exists |-> TRUE, has_status |-> TRUE, conditions |-> cs] : cs \in CondLists}

\* The ManagedClusterAddOn made from ADDON_TEMPLATE: it has no status yet.
NewAddon == [exists |-> TRUE, has_status |-> FALSE, conditions |-> << >>]

\* check_managed_cluster_addon_available taking any condition that is 'True'
\* for the Available one.
check_managed_cluster_addon_availableAnyType(managed_cluster_addon) ==
    /\ managed_cluster_addon # NoneAddon
    /\ managed_cluster_addon.has_status
    /\ \E i \in 1..Len(managed_cluster_addon.conditions) :
          managed_cluster_addon.conditions[i].status = "True"

\* The loop over the conditions from the i-th on: the first Available one decides.
RECURSIVE first_available(_, _)
first_available(conditions, i) ==
    IF i > Len(conditions) THEN FALSE
    ELSE IF conditions[i].type = "Available" THEN conditions[i].status = "True"
    ELSE first_available(conditions, i + 1)

check_managed_cluster_addon_available(managed_cluster_addon) ==
    IF managed_cluster_addon = NoneAddon THEN FALSE
    ELSE IF managed_cluster_addon.has_status
    THEN first_available(managed_cluster_addon.conditions, 1)
    ELSE FALSE

\* delete_managed_cluster_addon taking every answer for a success.
delete_managed_cluster_addonAnyStatus(status) == TRUE

\* delete_managed_cluster_addon: status is the status of what delete returned.
delete_managed_cluster_addon(status) == status = "Success"

AddonArgs == [state : {"present", "absent"}, wait : BOOLEAN]

FirstPc(args) == IF args.state = "present" THEN "enable_check" ELSE "disable_get"

InitAddon ==
    /\ addon_hub \in AddonObjects \cup {NoneAddon}
    /\ addon_args \in AddonArgs
    /\ addon_pc = FirstPc(addon_args)
    /\ addon_seen = NoneAddon
    /\ addon_calls = NoAddonCalls
    /\ addon_out = NoAddonOut
    /\ addon_hist = [run |-> 1, prev_state |-> "none", prev_out |-> NoAddonOut,
                     dirty |-> FALSE, prev_dirty |-> FALSE]
    /\ VerIdle
    /\ MchIdle
    /\ MceIdle
    /\ PsIdle
    /\ PoolIdle
    /\ CompIdle
    /\ CsvIdle
    /\ ImpIdle
    /\ RbacIdle
    /\ WaitIdle
    /\ InvIdle
    /\ FcIdle
    /\ FeatIdle

\* enable_managed_cluster_addon, the first check_addon_available.
EnableCheck ==
    /\ addon_pc = "enable_check"
    /\ addon_seen' = addon_hub
    /\ IF check_managed_cluster_addon_available(addon_hub)
       THEN /\ addon_out' = [kind |-> "exit", changed |-> FALSE]
            /\ addon_pc' = "done"
       ELSE /\ addon_out' = addon_out
            /\ addon_pc' = "ensure"
    /\ UNCHANGED <<addon_hub, addon_args, addon_calls, addon_hist, addonOthers>>

\* ensure_managed_cluster_addon_enabled: get, and create when not found; the
\* create succeeds or raises DynamicApiError.
EnableEnsure ==
    /\ addon_pc = "ensure"
    /\ IF addon_hub.exists
       THEN /\ addon_calls' = [addon_calls EXCEPT !.found = TRUE]
            /\ addon_pc' = IF addon_args.wait THEN "wait" ELSE "final"
            /\ UNCHANGED <<addon_hub, addon_out>>
       ELSE \E created \in BOOLEAN :
              /\ addon_calls' = [addon_calls EXCEPT !.creates = @ + 1]
              /\ IF created
                 THEN /\ addon_hub' = NewAddon
                      /\ addon_pc' = IF addon_args.wait THEN "wait" ELSE "final"
                      /\ addon_out' = addon_out
                 ELSE /\ addon_hub' = addon_hub
                      /\ addon_pc' = "done"
                      /\ addon_out' = [kind |-> "fail", changed |-> FALSE]
    /\ UNCHANGED <<addon_args, addon_seen, addon_hist, addonOthers>>

\* wait_for_addon_available returns, having seen the addon Available or not;
\* what it returns is not used.
EnableWait ==
    /\ addon_pc = "wait"
    /\ addon_pc' = "final"
    /\ UNCHANGED <<addon_hub, addon_args, addon_seen, addon_calls, addon_out,
                   addon_hist, addonOthers>>

\* enable_managed_cluster_addon, the final check_addon_available.
EnableFinal ==
    /\ addon_pc = "final"
    /\ addon_seen' = addon_hub
    /\ addon_pc' = "done"
    /\ addon_out' = IF check_managed_cluster_addon_available(addon_hub)
                    THEN [kind |-> "exit", changed |-> TRUE]
                    ELSE [kind |-> "fail", changed |-> FALSE]
    /\ UNCHANGED <<addon_hub, addon_args, addon_calls, addon_hist, addonOthers>>

\* disable_managed_cluster_addon, get_managed_cluster_addon.
DisableGet ==
    /\ addon_pc = "disable_get"
    /\ addon_seen' = addon_hub
    /\ IF addon_hub = NoneAddon
       THEN /\ addon_out' = [kind |-> "exit", changed |-> FALSE]
            /\ addon_pc' = "done"
       ELSE /\ addon_out' = addon_out
            /\ addon_pc' = "delete"
    /\ UNCHANGED <<addon_hub, addon_args, addon_calls, addon_hist, addonOthers>>

\* disable_managed_cluster_addon, delete_managed_cluster_addon: the delete of
\* an addon that is gone meanwhile raises NotFoundError, which nothing catches.
DisableDelete ==
    /\ addon_pc = "delete"
    /\ addon_pc' = "done"
    /\ IF ~addon_hub.exists
       THEN /\ addon_calls' = [addon_calls EXCEPT !.deletes = @ + 1,
                                                   !.status = "NotFoundError"]
            /\ addon_out' = [kind |-> "exception", changed |-> FALSE]
            /\ addon_hub' = addon_hub
       ELSE \E status \in {"Success", "Failure"} :
              /\ addon_calls' = [addon_calls EXCEPT !.deletes = @ + 1,
                                                     !.status = status]
              /\ addon_hub' = IF status = "Success" THEN NoneAddon ELSE addon_hub
              /\ addon_out' = IF delete_managed_cluster_addon(status)
                              THEN [kind |-> "exit", changed |-> TRUE]
                              ELSE [kind |-> "fail", changed |-> FALSE]
    /\ UNCHANGED <<addon_args, addon_seen, addon_hist, addonOthers>>

\* The addon controller or another user of the hub creates, deletes or updates
\* the ManagedClusterAddOn.
HubAddonChanges ==
    /\ addon_hist.run >= 1
    /\ addon_pc # "done"
    /\ \E obj \in (AddonObjects \cup {NoneAddon}) \ {addon_hub} : addon_hub' = obj
    /\ addon_hist' = [addon_hist EXCEPT !.dirty = TRUE]
    /\ UNCHANGED <<addon_args, addon_pc, addon_seen, addon_calls, addon_out,
                   addonOthers>>

\* The module is run again.
RunAddonAgain ==
    /\ addon_pc = "done"
    /\ addon_hist.run >= 1
    /\ addon_hist.run < MaxRuns
    /\ \E args \in AddonArgs :
          /\ addon_args' = args
          /\ addon_pc' = FirstPc(args)
    /\ addon_seen' = NoneAddon
    /\ addon_calls' = NoAddonCalls
    /\ addon_out' = NoAddonOut
    /\ addon_hist' = [run |-> addon_hist.run + 1, prev_state |-> addon_args.state,
                      prev_out |-> addon_out, dirty |-> FALSE,
                      prev_dirty |-> addon_hist.dirty]
    /\ UNCHANGED <<addon_hub, addonOthers>>

NextAddon ==
    \/ EnableCheck
    \/ EnableEnsure
    \/ EnableWait
    \/ EnableFinal
    \/ DisableGet
    \/ DisableDelete
    \/ HubAddonChanges
    \/ RunAddonAgain

SpecAddon == InitAddon /\ [][NextAddon]_vars

\* The addon has an Available condition whose status is 'True'.
AvailableTrue(obj) ==
    /\ obj.exists
    /\ \E i \in 1..Len(obj.conditions) :
          obj.conditions[i] = [type |-> "Available", status |-> "True"]

\* C1: with state=present the module exits with changed=False, having created
\* nothing, when the addon is Available at the first check; otherwise the
\* addon was found or a create was sent, and the module exits with
\* changed=True only when the addon is Available at the final check and
\* calls fail_json when it is not. It never reports success for an addon that
\* its last check did not find Available.
EnableReportsOnlyAvailable ==
    (addon_args.state = "present" /\ addon_pc = "done" /\ addon_hist.run >= 1) =>
        /\ addon_out.kind \in {"exit", "fail"}
        /\ addon_out.kind = "exit" <=> AvailableTrue(addon_seen)
        /\ (addon_out.kind = "exit" /\ ~addon_out.changed)
              <=> (addon_calls.creates = 0 /\ ~addon_calls.found)
        /\ (addon_out.kind = "exit" /\ addon_out.changed)
              => (addon_calls.found \/ addon_calls.creates = 1)

\* The addon did not exist, was created, became Available during the wait, and
\* the module reports changed=True.
EnableCreatedCase ==
    /\ addon_args = [state |-> "present", wait |-> TRUE]
    /\ addon_out = [kind |-> "exit", changed |-> TRUE]
    /\ addon_calls.creates = 1

\* C2: with state=absent the module exits with changed=False and sends no
\* delete and no create when the addon does not exist; when it exists the
\* delete is sent, and the module exits with changed=True when the delete
\* status is 'Success' and fails otherwise. A second state=absent run after
\* one that succeeded, with no outside change, reports changed=False.
DisableIsIdempotent ==
    (addon_args.state = "absent" /\ addon_pc = "done" /\ addon_hist.run >= 1) =>
        /\ addon_calls.creates = 0
        /\ addon_seen = NoneAddon
              => (addon_out = [kind |-> "exit", changed |-> FALSE]
                     /\ addon_calls.deletes = 0)
        /\ addon_seen # NoneAddon => addon_calls.deletes = 1
        /\ (addon_out.kind = "exit" /\ addon_out.changed)
              <=> (addon_calls.deletes = 1 /\ addon_calls.status = "Success")
        /\ addon_out.kind = "fail"
              <=> (addon_calls.deletes = 1 /\ addon_calls.status = "Failure")
        /\ (addon_hist.prev_state = "absent" /\ addon_hist.prev_out.kind = "exit"
              /\ ~addon_hist.dirty /\ ~addon_hist.prev_dirty)
              => (addon_out = [kind |-> "exit", changed |-> FALSE]
                     /\ addon_calls.deletes = 0)

\* A run that deleted the addon, then a run that found nothing to do.
DisableTwiceCase ==
    /\ addon_args.state = "absent"
    /\ addon_pc = "done"
    /\ addon_hist.prev_state = "absent"
    /\ addon_hist.prev_out = [kind |-> "exit", changed |-> TRUE]
    /\ ~addon_hist.dirty /\ ~addon_hist.prev_dirty
    /\ addon_out = [kind |-> "exit", changed |-> FALSE]

(***************************************************************************)
(* policyset.execute_module, one step for each function it calls. The      *)
(* names of spec.policies and of policy_names are kept as sets: the code   *)
(* compares them as sets.                                                  *)
(***************************************************************************)
Letters ==
    {"a", "b", "c", "d", "e", "f", "g", "h", "i", "j", "k", "l", "m", "n", "o",
     "p", "q", "r", "s", "t", "u", "v", "w", "x", "y", "z"}

IsNameChar(c) == c \in Letters \cup Digits \cup {"-"}

\* re.sub('[^A-Za-z0-9\-]+', '', policyset_name)
remove_special(name) == SelectSeq(name, IsNameChar)

\* The last segment of manifest_dir: a name that is kept as it is, and one
\* that loses a character.
ManifestDirNames == {<<"p", "s">>, <<"p", "_", "s">>}

\* The PolicySets of the namespace: the one name that a Kubernetes object can
\* have among the names above.
SetNames == {<<"p", "s">>}

FileChars == <<"a", "b", "c", "d", "e", "f">>

\* The file names that get_filepath may find in manifest_dir.
Filenames == {<<FileChars[i]>> : i \in 1..MaxFiles}

\* f'{policyset_name}-{item["filename"]}'
policy_name(policyset_name, filename) == policyset_name \o <<"-">> \o filename

PolicyNames == {policy_name(n, f) : n \in SetNames, f \in Filenames}

PolicySets ==
    [exists : {TRUE}, labelled : BOOLEAN, policies : SUBSET PolicyNames,
     description : {"", "d"}]

\* policyset_api.get(name=name, namespace=namespace)
get_policyset(hub, name) ==
    IF name \in DOMAIN hub.sets THEN hub.sets[name] ELSE NonePolicySet

\* validates: TRUE when it returns, FALSE when it calls fail_json.
validates(hub, namespace_exists, policyset_name) ==
    IF ~namespace_exists THEN FALSE
    ELSE LET policyset == get_policyset(hub, policyset_name)
         IN  IF policyset.exists THEN policyset.labelled ELSE TRUE

added_policies(policy_names, old_policies) == policy_names \ old_policies

\* deleted_policies with the two sets taken the wrong way round.
deleted_policiesSwapped(policy_names, old_policies) == policy_names \ old_policies

deleted_policies(policy_names, old_policies) == old_policies \ policy_names

\* patch_body and update_required of ensure_policyset.
patch_body(policy_names, description, policyset) ==
    LET changed == \/ added_policies(policy_names, policyset.policies) # {}
                   \/ deleted_policies(policy_names, policyset.policies) # {}
    IN  [sent |-> changed \/ description # policyset.description,
         has_policies |-> changed,
         policies |-> IF changed THEN policy_names ELSE {},
         has_description |-> description # policyset.description,
         description |-> IF description # policyset.description THEN description ELSE ""]

\* delete_policy for each of names: the Policies that carry the label are
\* deleted.
DeletedByLabel(hub, names) == {n \in names : hub.policies[n] = "labelled"}

PsHubs ==
    [sets : [SetNames -> PolicySets \cup {NonePolicySet}],
     policies : [PolicyNames -> {"absent", "labelled", "unlabelled"}]]

PsArgs ==
    [manifest_dir : ManifestDirNames, state : {"present", "absent"},
     description : {"", "d"}]

InitPolicySet ==
    /\ ps_hub \in PsHubs
    /\ ps_args \in PsArgs
    /\ ps_pc = "validates"
    /\ ps_start = get_policyset(ps_hub, remove_special(ps_args.manifest_dir))
    /\ ps_names = {}
    /\ ps_old = NonePolicySet
    /\ ps_patch = NoPatch
    /\ ps_calls = {}
    /\ ps_out = NoPsOut
    /\ VerIdle
    /\ MchIdle
    /\ MceIdle
    /\ AddonIdle
    /\ PoolIdle
    /\ CompIdle
    /\ CsvIdle
    /\ ImpIdle
    /\ RbacIdle
    /\ WaitIdle
    /\ InvIdle
    /\ FcIdle
    /\ FeatIdle

\* execute_module up to the choice on state: validates is given the last
\* segment of manifest_dir as it is.
Validates ==
    /\ ps_pc = "validates"
    /\ \E namespace_exists \in BOOLEAN :
          IF validates(ps_hub, namespace_exists, ps_args.manifest_dir)
          THEN /\ ps_pc' = IF ps_args.state = "present"
                           THEN "ensure_all_policies" ELSE "delete_all"
               /\ ps_out' = ps_out
          ELSE /\ ps_pc' = "done"
               /\ ps_out' = [kind |-> "fail", at |-> "validates"]
    /\ UNCHANGED <<ps_hub, ps_args, ps_start, ps_names, ps_old, ps_patch, ps_calls,
                   psOthers>>

\* clone_repo and ensure_all_policies: clone_repo or get_filepath calls
\* fail_json, or every file of manifest_dir is given to ensure_policy, which
\* creates the Policy, patches it when it differs (a Policy without the label
\* differs), or raises. policy_names are the Policies that did not raise.
\* When a worker thread has ended on a file, in_queue.join() may never return.
EnsureAllPolicies ==
    /\ ps_pc = "ensure_all_policies"
    /\ \/ /\ ps_pc' = "done"
          /\ ps_out' = [kind |-> "fail", at |-> "ensure_all_policies"]
          /\ UNCHANGED <<ps_hub, ps_names, ps_calls>>
       \/ \E files \in SUBSET Filenames \ {{}} : \E ok \in SUBSET files :
          \E differs \in BOOLEAN : \E joined \in {j \in BOOLEAN : j \/ ok # files} :
            LET name == remove_special(ps_args.manifest_dir)
                names == {policy_name(name, f) : f \in ok}
                patched == {n \in names :
                               \/ ps_hub.policies[n] = "unlabelled"
                               \/ ps_hub.policies[n] = "labelled" /\ differs}
                created == {n \in names : ps_hub.policies[n] = "absent"}
            IN  /\ ps_hub' = [ps_hub EXCEPT !.policies =
                                [n \in PolicyNames |->
                                    IF n \in names THEN "labelled" ELSE @[n]]]
                /\ ps_names' = IF joined THEN names ELSE {}
                /\ ps_calls' = ps_calls
                                 \cup {<<"create", "Policy", n>> : n \in created}
                                 \cup {<<"patch", "Policy", n>> : n \in patched}
                /\ ps_pc' = IF joined THEN "ensure_policyset" ELSE "join"
                /\ ps_out' = ps_out
    /\ UNCHANGED <<ps_args, ps_start, ps_old, ps_patch, psOthers>>

\* ensure_policyset: the patch succeeds or raises DynamicApiError.
EnsurePolicyset ==
    /\ ps_pc = "ensure_policyset"
    /\ LET name == remove_special(ps_args.manifest_dir)
           policyset == get_policyset(ps_hub, name)
           stale == DeletedByLabel(ps_hub,
                                   deleted_policies(ps_names, policyset.policies))
           body == patch_body(ps_names, ps_args.description, policyset)
           policies_left == [n \in PolicyNames |->
                                IF n \in stale THEN "absent" ELSE ps_hub.policies[n]]
       IN  /\ ps_old' = policyset
           /\ IF policyset.exists
              THEN /\ ps_patch' = body
                   /\ ps_calls' = ps_calls
                                    \cup {<<"delete", "Policy", n>> : n \in stale}
                                    \cup IF body.sent
                                         THEN {<<"patch", "PolicySet", name>>}
                                         ELSE {}
                   /\ \E patched \in BOOLEAN :
                         IF body.sent /\ ~patched
                         THEN /\ ps_hub' = [ps_hub EXCEPT !.policies = policies_left]
                              /\ ps_pc' = "done"
                              /\ ps_out' = [kind |-> "fail", at |-> "ensure_policyset"]
                         ELSE /\ ps_hub' =
                                   [sets |-> [ps_hub.sets EXCEPT ![name] =
                                       [@ EXCEPT
                                          !.policies = IF body.has_policies
                                                       THEN body.policies ELSE @,
                                          !.description = IF body.has_description
                                                          THEN body.description ELSE @]],
                                    policies |-> policies_left]
                              /\ ps_pc' = "ensure_placement"
                              /\ ps_out' = ps_out
              ELSE /\ ps_patch' = NoPatch
                   /\ ps_calls' = ps_calls \cup {<<"create", "PolicySet", name>>}
                   /\ ps_hub' = [ps_hub EXCEPT !.sets =
                                   [n \in SetNames |->
                                       IF n = name
                                       THEN [exists |-> TRUE, labelled |-> TRUE,
                                             policies |-> ps_names,
                                             description |-> ps_args.description]
                                       ELSE @[n]]]
                   /\ ps_pc' = "ensure_placement"
                   /\ ps_out' = ps_out
    /\ UNCHANGED <<ps_args, ps_start, ps_names, psOthers>>

\* ensure_placement: the PlacementRule is created when it is not found and
\* patched when its expressions differ; the patch succeeds or raises
\* DynamicApiError.
EnsurePlacement ==
    /\ ps_pc = "ensure_placement"
    /\ LET name == remove_special(ps_args.manifest_dir)
       IN  \E rule \in {"absent", "same", "differs", "patch_fails"} :
              /\ ps_calls' = ps_calls \cup
                    CASE rule = "absent" -> {<<"create", "PlacementRule", name>>}
                      [] rule = "same" -> {}
                      [] OTHER -> {<<"patch", "PlacementRule", name>>}
              /\ IF rule = "patch_fails"
                 THEN /\ ps_pc' = "done"
                      /\ ps_out' = [kind |-> "fail", at |-> "ensure_placement"]
                 ELSE /\ ps_pc' = "ensure_placement_binding"
                      /\ ps_out' = ps_out
    /\ UNCHANGED <<ps_hub, ps_args, ps_start, ps_names, ps_old, ps_patch, psOthers>>

\* ensure_placement_binding and the exit_json that ends execute_module.
EnsurePlacementBinding ==
    /\ ps_pc = "ensure_placement_binding"
    /\ LET name == remove_special(ps_args.manifest_dir)
       IN  \E found \in BOOLEAN :
              ps_calls' = ps_calls \cup
                  IF found THEN {} ELSE {<<"create", "PlacementBinding", name>>}
    /\ ps_pc' = "done"
    /\ ps_out' = [kind |-> "exit", at |-> "execute_module"]
    /\ UNCHANGED <<ps_hub, ps_args, ps_start, ps_names, ps_old, ps_patch, psOthers>>

\* delete_all and the exit_json that ends execute_module: the Policies of
\* spec.policies that carry the label, the PlacementRule and PlacementBinding
\* of status.placement that carry it, then the PolicySet. A PolicySet whose
\* status names no placement makes the loop raise TypeError.
DeleteAll ==
    /\ ps_pc = "delete_all"
    /\ ps_pc' = "done"
    /\ LET name == remove_special(ps_args.manifest_dir)
           policyset == get_policyset(ps_hub, name)
           gone == DeletedByLabel(ps_hub, policyset.policies)
           policies_left == [n \in PolicyNames |->
                                IF n \in gone THEN "absent" ELSE ps_hub.policies[n]]
       IN  IF ~policyset.exists
           THEN /\ ps_out' = [kind |-> "exit", at |-> "execute_module"]
                /\ UNCHANGED <<ps_hub, ps_calls>>
           ELSE \E placement \in {"none", "unlabelled", "labelled"} :
                  IF placement = "none"
                  THEN /\ ps_hub' = [ps_hub EXCEPT !.policies = policies_left]
                       /\ ps_calls' = ps_calls
                                        \cup {<<"delete", "Policy", n>> : n \in gone}
                       /\ ps_out' = [kind |-> "exception", at |-> "delete_all"]
                  ELSE /\ ps_hub' = [sets |-> [ps_hub.sets EXCEPT ![name] = NonePolicySet],
                                     policies |-> policies_left]
                       /\ ps_calls' = ps_calls
                                        \cup {<<"delete", "Policy", n>> : n \in gone}
                                        \cup (IF placement = "labelled"
                                              THEN {<<"delete", "PlacementRule", name>>,
                                                    <<"delete", "PlacementBinding", name>>}
                                              ELSE {})
                                        \cup {<<"delete", "PolicySet", name>>}
                       /\ ps_out' = [kind |-> "exit", at |-> "execute_module"]
    /\ UNCHANGED <<ps_args, ps_start, ps_names, ps_old, ps_patch, psOthers>>

NextPolicySet ==
    \/ Validates
    \/ EnsureAllPolicies
    \/ EnsurePolicyset
    \/ EnsurePlacement
    \/ EnsurePlacementBinding
    \/ DeleteAll

SpecPolicySet == InitPolicySet /\ [][NextPolicySet]_vars

\* ensure_policyset has run on a PolicySet that existed.
PolicysetWasUpdated ==
    /\ ps_args.state = "present"
    /\ ps_old.exists
    /\ ps_pc \in {"ensure_placement", "ensure_placement_binding", "done"}
    /\ ps_out.at \notin {"validates", "ensure_all_policies"}

\* C3: on a state=present run against an existing PolicySet, every Policy of
\* the old spec.policies that is no longer generated and carries the plugin
\* label is deleted; spec.policies is patched to the generated names whenever
\* a name was added or removed; no patch is sent when neither the names nor
\* the description changed.
PolicysetFollowsManifests ==
    PolicysetWasUpdated =>
        /\ \A n \in ps_old.policies \ ps_names : ps_hub.policies[n] # "labelled"
        /\ ps_old.policies # ps_names
              => (ps_patch.sent /\ ps_patch.has_policies /\ ps_patch.policies = ps_names)
        /\ (ps_old.policies = ps_names /\ ps_old.description = ps_args.description)
              => ~ps_patch.sent
        /\ ps_patch.sent
              <=> <<"patch", "PolicySet", remove_special(ps_args.manifest_dir)>>
                     \in ps_calls

\* A name was dropped and a name was added: the dropped Policy was deleted and
\* the new names were patched in.
PolicysetReplacedCase ==
    /\ PolicysetWasUpdated
    /\ ps_old.policies \ ps_names # {}
    /\ ps_names \ ps_old.policies # {}
    /\ \E n \in ps_old.policies \ ps_names : <<"delete", "Policy", n>> \in ps_calls
    /\ ps_patch.policies = ps_names
    /\ ps_out.kind = "exit"

\* C4: when a PolicySet with the name the module works on exists without the
\* label ocmplus.cm.policyset/created, the run fails in validates and nothing
\* is created, patched or deleted.
ForeignPolicySetIsUntouched ==
    (ps_start.exists /\ ~ps_start.labelled) =>
        /\ ps_calls = {}
        /\ ps_pc = "done" => ps_out = [kind |-> "fail", at |-> "validates"]

(***************************************************************************)
(* ensure_all_policies and the Policy threads, one step for each call on a *)
(* queue. Items are numbered in the order get_filepath yields them.        *)
(***************************************************************************)
Threads == 1..MaxThreads

Items == 1..MaxItems

RECURSIVE SumTo(_, _)
SumTo(f, n) == IF n = 0 THEN 0 ELSE f[n] + SumTo(f, n - 1)

\* join that waits for in_queue to be empty.
join_returnsWhenEmpty(queue, unfinished) == queue = << >>

\* in_queue.join() returns when no task is unfinished.
join_returns(queue, unfinished) == unfinished = 0

\* The Policy threads are started before the first put; each waits in get.
InitPool ==
    /\ pool_in_queue = << >>
    /\ pool_unfinished_tasks = 0
    /\ pool_out_queue = << >>
    /\ pool_threads = [t \in Threads |-> [pc |-> "get", item |-> 0, then |-> "get"]]
    /\ pool_main = "put"
    /\ pool_items \in 0..MaxItems
    /\ pool_put = 0
    /\ pool_names = << >>
    /\ pool_taken = [i \in Items |-> 0]
    /\ pool_done = [i \in Items |-> 0]
    /\ VerIdle
    /\ MchIdle
    /\ MceIdle
    /\ AddonIdle
    /\ PsIdle
    /\ CompIdle
    /\ CsvIdle
    /\ ImpIdle
    /\ RbacIdle
    /\ WaitIdle
    /\ InvIdle
    /\ FcIdle
    /\ FeatIdle

\* in_queue.put of the next item of get_filepath.
MainPut ==
    /\ pool_main = "put"
    /\ pool_put < pool_items
    /\ pool_put' = pool_put + 1
    /\ pool_in_queue' = Append(pool_in_queue, pool_put + 1)
    /\ pool_unfinished_tasks' = pool_unfinished_tasks + 1
    /\ UNCHANGED <<pool_out_queue, pool_threads, pool_main, pool_items, pool_names,
                   pool_taken, pool_done, poolOthers>>

\* The loop over get_filepath is over: in_queue.join() is called.
MainJoin ==
    /\ pool_main = "put"
    /\ pool_put = pool_items
    /\ pool_main' = "join"
    /\ UNCHANGED <<pool_in_queue, pool_unfinished_tasks, pool_out_queue, pool_threads,
                   pool_items, pool_put, pool_names, pool_taken, pool_done, poolOthers>>

\* in_queue.join() returns.
MainJoinReturns ==
    /\ pool_main = "join"
    /\ join_returns(pool_in_queue, pool_unfinished_tasks)
    /\ pool_main' = "collect"
    /\ UNCHANGED <<pool_in_queue, pool_unfinished_tasks, pool_out_queue, pool_threads,
                   pool_items, pool_put, pool_names, pool_taken, pool_done, poolOthers>>

\* policy_names.append(out_queue.get())
MainCollect ==
    /\ pool_main = "collect"
    /\ pool_out_queue # << >>
    /\ pool_names' = Append(pool_names, Head(pool_out_queue))
    /\ pool_out_queue' = Tail(pool_out_queue)
    /\ UNCHANGED <<pool_in_queue, pool_unfinished_tasks, pool_threads, pool_main,
                   pool_items, pool_put, pool_taken, pool_done, poolOthers>>

\* out_queue.empty(): return policy_names
MainReturn ==
    /\ pool_main = "collect"
    /\ pool_out_queue = << >>
    /\ pool_main' = "returned"
    /\ UNCHANGED <<pool_in_queue, pool_unfinished_tasks, pool_out_queue, pool_threads,
                   pool_items, pool_put, pool_names, pool_taken, pool_done, poolOthers>>

\* item = self.in_queue.get()
ThreadGet(t) ==
    /\ pool_threads[t].pc = "get"
    /\ pool_in_queue # << >>
    /\ pool_threads' = [pool_threads EXCEPT ![t] =
                          [pc |-> "ensure_policy", item |-> Head(pool_in_queue),
                           then |-> "get"]]
    /\ pool_taken' = [pool_taken EXCEPT ![Head(pool_in_queue)] = @ + 1]
    /\ pool_in_queue' = Tail(pool_in_queue)
    /\ UNCHANGED <<pool_unfinished_tasks, pool_out_queue, pool_main, pool_items,
                   pool_put, pool_names, pool_done, poolOthers>>

\* The try block of run: ensure_policy returns and the name is put on
\* out_queue; or it raises an Exception and module.warning returns; or it
\* raises an Exception and module.warning raises (AnsibleModule has no method
\* warning); or it calls fail_json, whose SystemExit is not an Exception. The
\* finally block follows in each case, and the last two end the thread.
ThreadEnsurePolicy(t) ==
    /\ pool_threads[t].pc = "ensure_policy"
    /\ \E outcome \in {"returns", "warned", "warning_raises", "fail_json"} :
          /\ pool_threads' = [pool_threads EXCEPT ![t] =
                [pc |-> "task_done", item |-> @.item,
                 then |-> IF outcome \in {"returns", "warned"} THEN "get" ELSE "ended"]]
          /\ pool_out_queue' = IF outcome = "returns"
                               THEN Append(pool_out_queue, pool_threads[t].item)
                               ELSE pool_out_queue
    /\ UNCHANGED <<pool_in_queue, pool_unfinished_tasks, pool_main, pool_items, pool_put,
                   pool_names, pool_taken, pool_done, poolOthers>>

\* finally: self.in_queue.task_done()
ThreadTaskDone(t) ==
    /\ pool_threads[t].pc = "task_done"
    /\ pool_unfinished_tasks > 0
    /\ pool_unfinished_tasks' = pool_unfinished_tasks - 1
    /\ pool_done' = [pool_done EXCEPT ![pool_threads[t].item] = @ + 1]
    /\ pool_threads' = [pool_threads EXCEPT ![t] =
                          [pc |-> @.then, item |-> @.item, then |-> @.then]]
    /\ UNCHANGED <<pool_in_queue, pool_out_queue, pool_main, pool_items, pool_put,
                   pool_names, pool_taken, poolOthers>>

NextPool ==
    \/ MainPut
    \/ MainJoin
    \/ MainJoinReturns
    \/ MainCollect
    \/ MainReturn
    \/ \E t \in Threads : ThreadGet(t)
    \/ \E t \in Threads : ThreadEnsurePolicy(t)
    \/ \E t \in Threads : ThreadTaskDone(t)

SpecPool == InitPool /\ [][NextPool]_vars

\* C5: for any interleaving of the Policy threads, no item is taken from
\* in_queue twice and task_done is signalled at most once for an item; a thread
\* that has left the finally block has signalled task_done for its item,
\* whether ensure_policy returned or raised; the unfinished tasks are the items
\* put less the task_done calls; and once in_queue.join() has returned every
\* item that get_filepath yielded was put, taken by one thread and followed
\* by one task_done.
EveryItemIsProcessedOnce ==
    /\ \A i \in Items : pool_taken[i] <= 1 /\ pool_done[i] <= pool_taken[i]
    /\ \A t \in Threads :
          (pool_threads[t].item # 0 /\ pool_threads[t].pc \in {"get", "ended"})
              => pool_done[pool_threads[t].item] = 1
    /\ pool_unfinished_tasks = pool_put - SumTo(pool_done, MaxItems)
    /\ pool_main \in {"collect", "returned"}
          => /\ pool_put = pool_items
             /\ \A i \in 1..pool_items : pool_taken[i] = 1 /\ pool_done[i] = 1
             /\ SumTo(pool_done, MaxItems) = pool_items
             /\ pool_in_queue = << >>

\* ensure_all_policies has returned after a thread ended on one item and
\* another item's name was collected.
PoolReturnedAfterFailureCase ==
    /\ pool_main = "returned"
    /\ pool_items >= 2
    /\ \E t \in Threads : pool_threads[t].pc = "ended"
    /\ pool_names # << >>
    /\ Len(pool_names) < pool_items

(***************************************************************************)
(* get_nested, get_component_status and set_component_status. A call ends  *)
(* by returning, by module.fail_json, or with an exception that escapes.   *)
(***************************************************************************)
ComponentNames == {"a", "b"}

\* An entry of components: a dict with or without the keys name and enabled,
\* or a value that is not a dict.
NotADict == [dict |-> FALSE, has_name |-> FALSE, name |-> "", has_enabled |-> FALSE,
             enabled |-> FALSE]

ComponentDicts ==
    {c \in [dict : {TRUE}, has_name : BOOLEAN, name : ComponentNames \cup {""},
            has_enabled : BOOLEAN, enabled : BOOLEAN] :
        /\ c.has_name <=> c.name # ""
        /\ ~c.has_enabled => ~c.enabled}

ComponentLists ==
    UNION {[1..n -> ComponentDicts \cup {NotADict}] : n \in 0..MaxComponents}

\* component.get('name', '')
component_name_of(component) == IF component.has_name THEN component.name ELSE ""

\* component.get('enabled', False)
component_enabled_of(component) ==
    IF component.has_enabled THEN component.enabled ELSE FALSE

DictObj(spec, overrides, components, s, l) ==
    [obj |-> "dict", spec |-> spec, overrides |-> overrides, components |-> components,
     s |-> s, l |-> l, rest |-> "rest"]

CompObjects ==
    {NoneObj,
     DictObj("missing", "missing", "missing", << >>, << >>),
     DictObj("none", "missing", "missing", << >>, << >>),
     DictObj("dict", "missing", "missing", << >>, << >>),
     DictObj("dict", "none", "missing", << >>, << >>),
     DictObj("dict", "dict", "missing", << >>, << >>),
     DictObj("dict", "dict", "none", << >>, << >>),
     DictObj("dict", "dict", "str", << >>, << >>),
     DictObj("dict", "dict", "str", <<"w">>, << >>)}
    \cup {DictObj("dict", "dict", "list", << >>, l) : l \in ComponentLists}

\* get_nested(obj, ['spec', 'overrides', 'components']): "none" for None,
\* otherwise the kind of value found.
get_nested(obj) ==
    IF obj.obj = "none" THEN "none"
    ELSE IF obj.spec # "dict" THEN "none"
    ELSE IF obj.overrides # "dict" THEN "none"
    ELSE IF obj.components = "missing" THEN "none"
    ELSE obj.components

\* The except clause that catches TypeError only.
on_exceptionTypeErrorOnly(exception) ==
    IF exception = "TypeError" THEN "fail_json" ELSE "raise"

\* except (TypeError, AttributeError): module.fail_json
on_exception(exception) ==
    IF exception \in {"TypeError", "AttributeError"} THEN "fail_json" ELSE "raise"

\* The loop of get_component_status that returns the last entry of the name.
RECURSIVE scan_componentsLast(_, _, _)
scan_componentsLast(l, i, component_name) ==
    IF i < 1 THEN [out |-> "return", value |-> FALSE]
    ELSE IF ~l[i].dict THEN [out |-> on_exception("AttributeError"), value |-> FALSE]
    ELSE IF component_name_of(l[i]) # component_name
         THEN scan_componentsLast(l, i - 1, component_name)
    ELSE [out |-> "return", value |-> component_enabled_of(l[i])]

\* The loop of get_component_status over a list, from entry i on.
RECURSIVE scan_components(_, _, _)
scan_components(l, i, component_name) ==
    IF i > Len(l) THEN [out |-> "return", value |-> FALSE]
    ELSE IF ~l[i].dict THEN [out |-> on_exception("AttributeError"), value |-> FALSE]
    ELSE IF component_name_of(l[i]) # component_name
         THEN scan_components(l, i + 1, component_name)
    ELSE [out |-> "return", value |-> component_enabled_of(l[i])]

\* get_component_status with the scan from the end of the list.
get_component_statusLast(obj, component_name) ==
    IF get_nested(obj) = "list"
    THEN scan_componentsLast(obj.l, Len(obj.l), component_name)
    ELSE [out |-> "return", value |-> FALSE]

\* get_component_status: a string is iterated character by character, and a
\* character has no get.
get_component_status(obj, component_name) ==
    LET components == get_nested(obj)
    IN  CASE components = "none" -> [out |-> "return", value |-> FALSE]
          [] components = "str" ->
               IF obj.s = << >> THEN [out |-> "return", value |-> FALSE]
               ELSE [out |-> on_exception("AttributeError"), value |-> FALSE]
          [] components = "list" -> scan_components(obj.l, 1, component_name)

\* component['enabled'] = enabled, when component.get('enabled', False) differs.
set_enabled(component, enabled) ==
    IF component_enabled_of(component) # enabled
    THEN [component EXCEPT !.has_enabled = TRUE, !.enabled = enabled]
    ELSE component

\* The loop of set_component_status over the list, from entry i on: the list
\* as the loop leaves it, hasComponent, and whether an entry raised.
RECURSIVE update_components(_, _, _, _, _)
update_components(l, i, component_name, enabled, hasComponent) ==
    IF i > Len(l) THEN [l |-> l, hasComponent |-> hasComponent, raised |-> FALSE]
    ELSE IF ~l[i].dict THEN [l |-> l, hasComponent |-> hasComponent, raised |-> TRUE]
    ELSE IF component_name_of(l[i]) = component_name
         THEN update_components([l EXCEPT ![i] = set_enabled(@, enabled)], i + 1,
                                component_name, enabled, TRUE)
    ELSE update_components(l, i + 1, component_name, enabled, hasComponent)

NewComponent(component_name, enabled) ==
    [dict |-> TRUE, has_name |-> TRUE, name |-> component_name, has_enabled |-> TRUE,
     enabled |-> enabled]

\* The append that does not look at hasComponent.
append_componentAlways(l, hasComponent, component_name, enabled) ==
    Append(l, NewComponent(component_name, enabled))

\* if not hasComponent: overrides['components'].append(...)
append_component(l, hasComponent, component_name, enabled) ==
    IF hasComponent THEN l ELSE Append(l, NewComponent(component_name, enabled))

\* set_component_status: how the call ends and the object as it leaves it. The
\* object is changed in place, so what was changed before an exception stays.
set_component_status(obj, component_name, enabled) ==
    IF obj.obj = "none" THEN [out |-> "fail_json", obj |-> obj]
    ELSE IF obj.spec # "dict" THEN [out |-> "fail_json", obj |-> obj]
    ELSE IF obj.overrides = "none"
         THEN [out |-> on_exception("AttributeError"), obj |-> obj]
    ELSE LET with_overrides == [obj EXCEPT !.overrides = "dict"]
             with_components ==
                 IF obj.overrides = "missing" \/ obj.components = "missing"
                 THEN [with_overrides EXCEPT !.components = "list", !.l = << >>]
                 ELSE with_overrides
         IN  CASE with_components.components = "none" ->
                    [out |-> on_exception("TypeError"), obj |-> with_components]
               [] with_components.components = "str" ->
                    [out |-> on_exception("AttributeError"), obj |-> with_components]
               [] with_components.components = "list" ->
                    LET done == update_components(with_components.l, 1, component_name,
                                                  enabled, FALSE)
                    IN  IF done.raised
                        THEN [out |-> on_exception("AttributeError"),
                              obj |-> [with_components EXCEPT !.l = done.l]]
                        ELSE [out |-> "return",
                              obj |-> [with_components EXCEPT !.l =
                                          append_component(done.l, done.hasComponent,
                                                           component_name, enabled)]]

CompArgs == [component_name : ComponentNames, enabled : BOOLEAN]

InitComp ==
    /\ comp_obj \in CompObjects
    /\ comp_args \in CompArgs
    /\ comp_out = NoCompOut
    /\ VerIdle
    /\ MchIdle
    /\ MceIdle
    /\ AddonIdle
    /\ PsIdle
    /\ PoolIdle
    /\ CsvIdle
    /\ ImpIdle
    /\ RbacIdle
    /\ WaitIdle
    /\ InvIdle
    /\ FcIdle
    /\ FeatIdle

\* get_component_status(obj, module, component_name)
GetComponentStatus ==
    /\ comp_out.op = "none"
    /\ LET r == get_component_status(comp_obj, comp_args.component_name)
       IN  comp_out' = [op |-> "get", out |-> r.out, value |-> r.value,
                        before |-> comp_obj]
    /\ UNCHANGED <<comp_obj, comp_args, compOthers>>

\* set_component_status(obj, module, component_name, enabled)
SetComponentStatus ==
    /\ comp_out.op = "none"
    /\ LET r == set_component_status(comp_obj, comp_args.component_name,
                                     comp_args.enabled)
       IN  /\ comp_obj' = r.obj
           /\ comp_out' = [op |-> "set", out |-> r.out, value |-> FALSE,
                           before |-> comp_obj]
    /\ UNCHANGED <<comp_args, compOthers>>

\* get_component_status on the object that set_component_status has left: what
\* enable_feature and disable_feature read once the object has been patched.
GetAfterSet ==
    /\ comp_out.op = "set"
    /\ comp_out.out = "return"
    /\ LET r == get_component_status(comp_obj, comp_args.component_name)
       IN  comp_out' = [op |-> "get_after_set", out |-> r.out, value |-> r.value,
                        before |-> comp_obj]
    /\ UNCHANGED <<comp_obj, comp_args, compOthers>>

NextComp ==
    \/ GetComponentStatus
    \/ SetComponentStatus
    \/ GetAfterSet

SpecComp == InitComp /\ [][NextComp]_vars

\* The entries of l named component_name.
NamedEntries(l, component_name) ==
    {i \in 1..Len(l) : l[i].dict /\ l[i].has_name /\ l[i].name = component_name}

AllDicts(l) == \A i \in 1..Len(l) : l[i].dict

Min(S) == CHOOSE i \in S : \A j \in S : i <= j

\* The object has spec.overrides.components, whatever it holds.
ComponentsPresent(obj) ==
    obj.obj = "dict" /\ obj.spec = "dict" /\ obj.overrides = "dict"
        /\ obj.components \notin {"missing", "none"}

\* C11: get_component_status returns the 'enabled' value of the first entry of
\* spec.overrides.components named component_name, and returns False without
\* fail_json when obj is None, when spec, overrides or components is missing,
\* when components is empty, and when no entry has the name.
GetComponentStatusReturnsFirst ==
    comp_out.op = "get" =>
        LET obj == comp_out.before
            named == NamedEntries(obj.l, comp_args.component_name)
        IN  /\ ~ComponentsPresent(obj)
                  => (comp_out.out = "return" /\ ~comp_out.value)
            /\ (ComponentsPresent(obj) /\ obj.components = "list" /\ AllDicts(obj.l))
                  => /\ comp_out.out = "return"
                     /\ named = {} => ~comp_out.value
                     /\ named # {} =>
                           comp_out.value = (obj.l[Min(named)].has_enabled
                                                /\ obj.l[Min(named)].enabled)

\* Two entries have the name and differ in 'enabled': the first one is
\* returned.
GetComponentStatusTwoEntriesCase ==
    /\ comp_out.op = "get"
    /\ comp_out.out = "return"
    /\ LET named == NamedEntries(comp_out.before.l, comp_args.component_name)
       IN  /\ AllDicts(comp_out.before.l)
           /\ \E i, j \in named :
                 /\ i < j
                 /\ comp_out.before.l[i].enabled # comp_out.before.l[j].enabled
                 /\ comp_out.value = comp_out.before.l[i].enabled

\* C12: when spec.overrides.components is a string, or a list whose scan
\* reaches an entry that is not a dict, get_component_status calls
\* module.fail_json and no TypeError or AttributeError escapes.
GetComponentStatusReportsMalformed ==
    comp_out.op = "get" =>
        LET obj == comp_out.before
            named == NamedEntries(obj.l, comp_args.component_name)
            reached == \E i \in 1..Len(obj.l) :
                          ~obj.l[i].dict /\ \A j \in named : i < j
        IN  (ComponentsPresent(obj)
                /\ (obj.components = "str" \/ (obj.components = "list" /\ reached)))
               => comp_out.out = "fail_json"

\* The object had a spec whose overrides and components were missing or well
\* formed when set_component_status was called.
SetOnWellFormed ==
    /\ comp_out.op = "set"
    /\ comp_out.before.obj = "dict"
    /\ comp_out.before.spec = "dict"
    /\ comp_out.before.overrides # "none"
    /\ comp_out.before.components \in {"missing", "list"}
    /\ AllDicts(comp_out.before.l)

\* C13: set_component_status on an object with a spec sets 'enabled' on the
\* entries named component_name, or appends one {name, enabled} entry at the
\* end of the list when no entry has the name, creating overrides and
\* components when they are missing; every other entry, the order of the list
\* and the rest of the object stay as they were, and no second entry is added
\* for a name that is present.
SetComponentStatusFrame ==
    SetOnWellFormed =>
        LET old == comp_out.before.l
            new == comp_obj.l
            named == NamedEntries(old, comp_args.component_name)
        IN  /\ comp_out.out = "return"
            /\ comp_obj.obj = "dict" /\ comp_obj.spec = "dict"
            /\ comp_obj.overrides = "dict" /\ comp_obj.components = "list"
            /\ comp_obj.rest = comp_out.before.rest
            /\ comp_obj.s = comp_out.before.s
            /\ named # {} =>
                  /\ Len(new) = Len(old)
                  /\ \A i \in 1..Len(old) :
                        IF i \in named
                        THEN /\ new[i].dict /\ new[i].name = old[i].name
                             /\ component_enabled_of(new[i]) = comp_args.enabled
                        ELSE new[i] = old[i]
            /\ named = {} =>
                  new = Append(old, NewComponent(comp_args.component_name,
                                                 comp_args.enabled))
            /\ \A i \in NamedEntries(new, comp_args.component_name) :
                  component_enabled_of(new[i]) = comp_args.enabled

\* An entry of the name was there with another 'enabled', next to an entry of
\* another name: the first was set and the second kept.
SetComponentStatusUpdateCase ==
    /\ SetOnWellFormed
    /\ comp_out.out = "return"
    /\ Len(comp_out.before.l) = Len(comp_obj.l)
    /\ \E i, j \in 1..Len(comp_obj.l) :
          /\ comp_out.before.l[i].name = comp_args.component_name
          /\ comp_out.before.l[i].has_enabled
          /\ comp_out.before.l[i].enabled # comp_args.enabled
          /\ comp_obj.l[i].enabled = comp_args.enabled
          /\ comp_obj.l[j].name \notin {"", comp_args.component_name}

\* C14: set_component_status calls module.fail_json, raises nothing and leaves
\* the object as it was when obj is None or has no spec; when
\* spec.overrides.components is a string or a list with an entry that is not a
\* dict, it calls module.fail_json and raises nothing.
SetComponentStatusFailsCleanly ==
    comp_out.op = "set" =>
        LET obj == comp_out.before
        IN  /\ (obj.obj = "none" \/ obj.spec # "dict")
                  => (comp_out.out = "fail_json" /\ comp_obj = obj)
            /\ (ComponentsPresent(obj)
                   /\ (obj.components = "str"
                          \/ (obj.components = "list" /\ ~AllDicts(obj.l))))
                  => comp_out.out = "fail_json"

\* The list had an entry that is not a dict after an entry of the name: the
\* call ended in fail_json.
SetComponentStatusMalformedCase ==
    /\ comp_out.op = "set"
    /\ comp_out.out = "fail_json"
    /\ comp_out.before.components = "list"
    /\ \E i, j \in 1..Len(comp_out.before.l) :
          /\ i < j
          /\ comp_out.before.l[i].name = comp_args.component_name
          /\ ~comp_out.before.l[j].dict

(***************************************************************************)
(* get_csv_version over ClusterServiceVersions of any name.                *)
(***************************************************************************)
CsvChars == {"a", ".", "v", "1"}

CsvNames == UNION {[1..k -> CsvChars] : k \in 0..MaxNameLen} \cup {NoneStr}

CsvSpecVersions == {NoneStr, << >>, <<"a">>, <<"1", ".", "1">>}

CsvPrefixes == {<< >>, <<"a">>}

CsvInputs ==
    {NoneCsv} \cup {Csv(name, NoneStr, v) : name \in CsvNames, v \in CsvSpecVersions}

InitCsv ==
    /\ csv_csv \in CsvInputs
    /\ csv_prefix \in CsvPrefixes
    /\ csv_out = NoCsvOut
    /\ VerIdle
    /\ MchIdle
    /\ MceIdle
    /\ AddonIdle
    /\ PsIdle
    /\ PoolIdle
    /\ CompIdle
    /\ ImpIdle
    /\ RbacIdle
    /\ WaitIdle
    /\ InvIdle
    /\ FcIdle
    /\ FeatIdle

\* get_csv_version(csv, prefix)
GetCsvVersion ==
    /\ ~csv_out.called
    /\ csv_out' = [called |-> TRUE, version |-> get_csv_version(csv_csv, csv_prefix)]
    /\ UNCHANGED <<csv_csv, csv_prefix, csvOthers>>

NextCsv == GetCsvVersion

SpecCsv == InitCsv /\ [][NextCsv]_vars

\* name is prefix, '.v' and a remainder.
NameRemainders(name, prefix) ==
    {rest \in CsvNames \ {NoneStr} : name = prefix \o <<".", "v">> \o rest}

\* C15: get_csv_version returns spec.version when it is a non-empty string,
\* whatever the name; otherwise the part of metadata.name after '<prefix>.v'
\* when the name starts with '<prefix>.v' and the part starts with a digit;
\* otherwise None.
GetCsvVersionPrefersSpec ==
    csv_out.called =>
        LET has_spec_version ==
                ~csv_csv.is_none /\ csv_csv.spec_version \notin {NoneStr, << >>}
            remainders ==
                IF csv_csv.is_none \/ csv_csv.name = NoneStr THEN {}
                ELSE {rest \in NameRemainders(csv_csv.name, csv_prefix) :
                         rest # << >> /\ Head(rest) \in Digits}
        IN  /\ has_spec_version => csv_out.version = csv_csv.spec_version
            /\ (~has_spec_version /\ remainders # {}) => csv_out.version \in remainders
            /\ (~has_spec_version /\ remainders = {}) => csv_out.version = NoneStr

\* spec.version is empty and the name gives the version.
GetCsvVersionFromNameCase ==
    /\ csv_out.called
    /\ csv_csv.spec_version = << >>
    /\ csv_prefix = <<"a">>
    /\ csv_csv.name = <<"a", ".", "v", "1", ".">>
    /\ csv_out.version = <<"1", ".">>

(***************************************************************************)
(* The optional libraries of the modules: the statements that a module     *)
(* runs when it is loaded, and those of execute_module on the path that    *)
(* uses every library ("try": import inside try/except ImportError that    *)
(* records the key in IMP_ERR; "import": import outside of it; "name": the *)
(* library's name is evaluated; "check": if key in IMP_ERR: fail_json;     *)
(* "check_raise": if key in IMP_ERR: raise AnsibleError; "api": a call of  *)
(* the hub's API).                                                         *)
(***************************************************************************)
Libs == {"k8s", "yaml", "jinja2", "polling", "requests", "urllib3", "git"}

St(op, lib) == [op |-> op, lib |-> lib]

ModuleNames ==
    {"managedcluster_addon", "cluster_proxy", "cluster_proxy_addon",
     "managed_serviceaccount_addon", "policyset"}

\* The statements at module level.
LoadOf(module) ==
    CASE module = "managedcluster_addon" -> <<St("try", "k8s")>>
      [] module = "cluster_proxy" ->
           <<St("try", "k8s"), St("try", "requests"), St("try", "urllib3")>>
      [] module = "cluster_proxy_addon" ->
           <<St("import", "requests"), St("import", "urllib3"), St("try", "k8s")>>
      [] module = "managed_serviceaccount_addon" ->
           <<St("try", "yaml"), St("try", "jinja2"), St("try", "polling"),
             St("try", "k8s"), St("name", "k8s")>>
      [] module = "policyset" ->
           <<St("try", "yaml"), St("try", "jinja2"), St("try", "k8s"),
             St("try", "git")>>

\* The statements of execute_module and of the functions it calls.
CallOf(module) ==
    CASE module = "managedcluster_addon" ->
           <<St("check", "k8s"), St("name", "k8s"), St("api", "k8s")>>
      [] module = "cluster_proxy" ->
           <<St("check", "k8s"), St("name", "k8s"), St("api", "k8s"),
             St("name", "urllib3"), St("name", "requests")>>
      [] module = "cluster_proxy_addon" ->
           <<St("check", "k8s"), St("name", "k8s"), St("api", "k8s"),
             St("name", "urllib3"), St("name", "requests")>>
      [] module = "managed_serviceaccount_addon" ->
           <<St("name", "k8s"), St("api", "k8s"), St("check_raise", "jinja2"),
             St("check_raise", "yaml"), St("api", "k8s"), St("name", "jinja2"),
             St("name", "yaml"), St("check_raise", "polling"), St("api", "k8s"),
             St("name", "polling")>>
      [] module = "policyset" ->
           <<St("check", "k8s"), St("check", "jinja2"), St("check", "yaml"),
             St("name", "k8s"), St("api", "k8s"), St("name", "git"),
             St("api", "k8s")>>

\* What one statement does: "next", or the way the run ends.
Run(statement, missing, err) ==
    CASE statement.op = "import" ->
           IF statement.lib \in missing THEN "ImportError" ELSE "next"
      [] statement.op = "try" -> "next"
      [] statement.op = "name" ->
           IF statement.lib \in missing THEN "NameError" ELSE "next"
      [] statement.op = "check" ->
           IF statement.lib \in err THEN "fail_json" ELSE "next"
      [] statement.op = "check_raise" ->
           IF statement.lib \in err THEN "AnsibleError" ELSE "next"
      [] statement.op = "api" -> "next"

InitImp ==
    /\ imp_missing \in SUBSET Libs
    /\ imp_module \in ModuleNames
    /\ imp_pc = [phase |-> "load", i |-> 1]
    /\ imp_err = {}
    /\ imp_api = FALSE
    /\ imp_out = NoImpOut
    /\ VerIdle
    /\ MchIdle
    /\ MceIdle
    /\ AddonIdle
    /\ PsIdle
    /\ PoolIdle
    /\ CompIdle
    /\ CsvIdle
    /\ RbacIdle
    /\ WaitIdle
    /\ InvIdle
    /\ FcIdle
    /\ FeatIdle

\* The next statement at module level.
LoadStep ==
    /\ imp_pc.phase = "load"
    /\ imp_pc.i <= Len(LoadOf(imp_module))
    /\ LET statement == LoadOf(imp_module)[imp_pc.i]
           r == Run(statement, imp_missing, imp_err)
       IN  /\ imp_err' = IF statement.op = "try" /\ statement.lib \in imp_missing
                         THEN imp_err \cup {statement.lib} ELSE imp_err
           /\ IF r = "next"
              THEN /\ imp_pc' = [imp_pc EXCEPT !.i = @ + 1]
                   /\ imp_out' = imp_out
              ELSE /\ imp_pc' = [phase |-> "done", i |-> imp_pc.i]
                   /\ imp_out' = [kind |-> r, at |-> "load"]
    /\ UNCHANGED <<imp_missing, imp_module, imp_api, impOthers>>

\* The module is loaded: main calls execute_module.
CallExecuteModule ==
    /\ imp_pc.phase = "load"
    /\ imp_pc.i > Len(LoadOf(imp_module))
    /\ imp_pc' = [phase |-> "call", i |-> 1]
    /\ UNCHANGED <<imp_missing, imp_module, imp_err, imp_api, imp_out, impOthers>>

\* The next statement of execute_module.
CallStep ==
    /\ imp_pc.phase = "call"
    /\ imp_pc.i <= Len(CallOf(imp_module))
    /\ LET statement == CallOf(imp_module)[imp_pc.i]
           r == Run(statement, imp_missing, imp_err)
       IN  /\ imp_api' = (imp_api \/ statement.op = "api")
           /\ IF r = "next"
              THEN /\ imp_pc' = [imp_pc EXCEPT !.i = @ + 1]
                   /\ imp_out' = imp_out
              ELSE /\ imp_pc' = [phase |-> "done", i |-> imp_pc.i]
                   /\ imp_out' = [kind |-> r, at |-> "call"]
    /\ UNCHANGED <<imp_missing, imp_module, imp_err, impOthers>>

\* module.exit_json
ExitJson ==
    /\ imp_pc.phase = "call"
    /\ imp_pc.i > Len(CallOf(imp_module))
    /\ imp_pc' = [phase |-> "done", i |-> imp_pc.i]
    /\ imp_out' = [kind |-> "exit_json", at |-> "call"]
    /\ UNCHANGED <<imp_missing, imp_module, imp_err, imp_api, impOthers>>

NextImp ==
    \/ LoadStep
    \/ CallExecuteModule
    \/ CallStep
    \/ ExitJson

SpecImp == InitImp /\ [][NextImp]_vars

\* The libraries that the module imports.
LibsOf(module) ==
    {LoadOf(module)[i].lib : i \in 1..Len(LoadOf(module))}

\* C16: a module whose optional library is missing does not end while it is
\* loaded; it ends in fail_json when execute_module is called, before any API
\* call.
ImportErrorsAreDeferred ==
    imp_pc.phase = "done" =>
        /\ imp_out.at # "load"
        /\ LibsOf(imp_module) \cap imp_missing # {}
              => (imp_out.kind = "fail_json" /\ ~imp_api)

(***************************************************************************)
(* managed_serviceaccount_rbac: get_rbac_resource_from_yaml and            *)
(* generate_rbac_manifest. Names are sequences of characters; a missing    *)
(* name, namespace, roleRef.kind or roleRef.name is the empty one, as      *)
(* .get(key, "") makes it.                                                 *)
(***************************************************************************)
RbacKinds == {"Role", "ClusterRole", "RoleBinding", "ClusterRoleBinding"}

Doc(kind, namespace, name, ref_kind, ref_name, has_subjects) ==
    [kind |-> kind, has_metadata |-> TRUE, namespace |-> namespace, name |-> name,
     has_role_ref |-> (ref_kind # "none"),
     ref_kind |-> IF ref_kind = "none" THEN "" ELSE ref_kind,
     ref_name |-> ref_name, has_subjects |-> has_subjects]

\* The documents a template may hold; "UNKNOWN" is a document that is not a
\* dict.
RbacDocs ==
    {Doc("Role", <<"n">>, <<"r">>, "none", << >>, FALSE),
     Doc("Role", <<"n">>, <<"s">>, "none", << >>, FALSE),
     Doc("Role", << >>, <<"r">>, "none", << >>, FALSE),
     Doc("Role", <<"n">>, << >>, "none", << >>, FALSE),
     [Doc("Role", << >>, << >>, "none", << >>, FALSE) EXCEPT !.has_metadata = FALSE],
     Doc("ClusterRole", << >>, <<"r">>, "none", << >>, FALSE),
     Doc("ClusterRole", <<"n">>, <<"r">>, "none", << >>, FALSE),
     Doc("RoleBinding", <<"n">>, <<"b">>, "Role", <<"r">>, FALSE),
     Doc("RoleBinding", <<"n">>, <<"b">>, "Role", <<"r">>, TRUE),
     Doc("RoleBinding", <<"n">>, <<"c">>, "ClusterRole", <<"r">>, FALSE),
     Doc("RoleBinding", <<"n">>, <<"b">>, "none", << >>, FALSE),
     Doc("RoleBinding", <<"n">>, <<"b">>, "", <<"r">>, FALSE),
     Doc("RoleBinding", <<"n">>, <<"b">>, "Role", << >>, FALSE),
     Doc("ClusterRoleBinding", << >>, <<"b">>, "ClusterRole", <<"r">>, FALSE),
     Doc("ClusterRoleBinding", << >>, <<"b">>, "ClusterRole", <<"x">>, FALSE),
     Doc("ConfigMap", <<"n">>, <<"r">>, "none", << >>, FALSE),
     [Doc("UNKNOWN", << >>, << >>, "none", << >>, FALSE) EXCEPT !.has_metadata = FALSE]}

RbacTemplates == UNION {[1..n -> RbacDocs] : n \in 0..MaxDocs}

\* The last segment of the ManagedServiceAccount UID.
Postfix == <<"p">>

\* 'Cluster' in kind
IsClusterKind(kind) == kind \in {"ClusterRole", "ClusterRoleBinding"}

\* 'RoleBinding' in kind
IsBindingKind(kind) == kind \in {"RoleBinding", "ClusterRoleBinding"}

\* f"{namespace}/{name}"
namespaced_name(namespace, name) == namespace \o <<"/">> \o name

\* module.warn with the number of positional arguments it is given:
\* AnsibleModule.warn takes one.
warn(arguments) == IF arguments = 1 THEN "warned" ELSE "TypeError"

\* The checks of the loop of get_rbac_resource_from_yaml on one resource:
\* "accepted", "warned" (the resource is ignored) or the exception.
check_resource(resource) ==
    IF resource.kind \notin RbacKinds THEN warn(2)
    ELSE IF ~resource.has_metadata THEN warn(1)
    ELSE IF resource.name = << >> THEN warn(1)
    ELSE IF IsClusterKind(resource.kind) /\ resource.namespace # << >> THEN warn(1)
    ELSE IF ~IsClusterKind(resource.kind) /\ resource.namespace = << >> THEN warn(1)
    ELSE IF IsBindingKind(resource.kind)
            /\ (~resource.has_role_ref \/ resource.ref_kind = ""
                   \/ resource.ref_name = << >>)
    THEN warn(1)
    ELSE "accepted"

\* rbac_resources[kind].get(namespaced_name) is not None
Exists(resources, kind, key) ==
    \E i \in 1..Len(resources[kind]) :
        namespaced_name(resources[kind][i].namespace, resources[kind][i].name) = key

\* The loop of get_rbac_resource_from_yaml from document i on.
RECURSIVE scan_resources(_, _, _, _)
scan_resources(yaml_resources, i, resources, warnings) ==
    IF i > Len(yaml_resources)
    THEN [out |-> IF resources = NoRbacResources THEN "fail_json" ELSE "return",
          resources |-> resources, warnings |-> warnings]
    ELSE LET resource == yaml_resources[i]
             checked == check_resource(resource)
             key == namespaced_name(resource.namespace, resource.name)
         IN  CASE checked = "TypeError" ->
                    [out |-> "TypeError", resources |-> resources, warnings |-> warnings]
               [] checked = "warned" ->
                    scan_resources(yaml_resources, i + 1, resources,
                                   warnings \cup {<<"ignored", i>>})
               [] checked = "accepted" ->
                    IF Exists(resources, resource.kind, key)
                    THEN [out |-> "fail_json", resources |-> resources,
                          warnings |-> warnings]
                    ELSE scan_resources(yaml_resources, i + 1,
                             [resources EXCEPT ![resource.kind] = Append(@, resource)],
                             warnings)

get_rbac_resource_from_yaml(yaml_resources) ==
    scan_resources(yaml_resources, 1, NoRbacResources, {})

\* f"{name}-{postfix}"
with_postfix(name) == name \o <<"-">> \o Postfix

\* {**rbac_resources['ClusterRoleBinding'], **rbac_resources['RoleBinding']}
Bindings(resources) == resources.ClusterRoleBinding \o resources.RoleBinding

\* {**rbac_resources['ClusterRole'], **rbac_resources['Role']}
Roles(resources) == resources.ClusterRole \o resources.Role

\* role_ref_namespaced_name: the namespace of the binding and roleRef.name
role_ref_namespaced_name(rolebinding) ==
    namespaced_name(rolebinding.namespace, rolebinding.ref_name)

\* rbac_resources.get(role_ref_kind, {}).get(role_ref_namespaced_name) is not
\* None
IsCreatedRole(resources, rolebinding) ==
    /\ rolebinding.ref_kind \in RbacKinds
    /\ Exists(resources, rolebinding.ref_kind, role_ref_namespaced_name(rolebinding))

\* The keys of referenced_roles after the loop over the bindings.
referenced_roles(resources) ==
    {role_ref_namespaced_name(Bindings(resources)[i]) :
        i \in {j \in 1..Len(Bindings(resources)) :
                  IsCreatedRole(resources, Bindings(resources)[j])}}

\* What the first loop makes of a binding.
rebind(resources, rolebinding) ==
    [rolebinding EXCEPT
        !.has_subjects = TRUE,
        !.name = with_postfix(@),
        !.ref_name = IF IsCreatedRole(resources, rolebinding)
                     THEN with_postfix(@) ELSE @]

\* What the second loop makes of a role.
rename_role(role) == [role EXCEPT !.name = with_postfix(@)]

MapRebind(resources, s) == [i \in 1..Len(s) |-> rebind(resources, s[i])]

MapRename(s) == [i \in 1..Len(s) |-> rename_role(s[i])]

\* generate_rbac_manifest: how it ends, rbac_manifest and the warnings.
generate_rbac_manifest(resources) ==
    LET bindings == Bindings(resources)
        roles == Roles(resources)
        manifest == MapRename(resources.Role) \o MapRename(resources.ClusterRole)
                      \o MapRebind(resources, resources.RoleBinding)
                      \o MapRebind(resources, resources.ClusterRoleBinding)
        warnings ==
            {<<"subjects", namespaced_name(bindings[i].namespace, bindings[i].name)>> :
                i \in {j \in 1..Len(bindings) : bindings[j].has_subjects}}
            \cup
            {<<"unreferenced", namespaced_name(roles[i].namespace, roles[i].name)>> :
                i \in {j \in 1..Len(roles) :
                          namespaced_name(roles[j].namespace, roles[j].name)
                              \notin referenced_roles(resources)}}
    IN  [out |-> IF Len(manifest) = 0 THEN "fail_json" ELSE "return",
         manifest |-> manifest, warnings |-> warnings]

\* ensure_managed_service_account_rbac has the documents of rbac_template, or
\* generate_rbac_manifest is called on no resource at all.
InitRbac ==
    /\ \/ rbac_yaml \in RbacTemplates /\ rbac_pc = "get_rbac_resource_from_yaml"
       \/ rbac_yaml = << >> /\ rbac_pc = "generate_rbac_manifest"
    /\ rbac_resources = NoRbacResources
    /\ rbac_manifest = << >>
    /\ rbac_warnings = {}
    /\ rbac_out = NoRbacOut
    /\ VerIdle
    /\ MchIdle
    /\ MceIdle
    /\ AddonIdle
    /\ PsIdle
    /\ PoolIdle
    /\ CompIdle
    /\ CsvIdle
    /\ ImpIdle
    /\ WaitIdle
    /\ InvIdle
    /\ FcIdle
    /\ FeatIdle

\* rbac_resources = get_rbac_resource_from_yaml(module, yaml_resources)
GetRbacResourceFromYaml ==
    /\ rbac_pc = "get_rbac_resource_from_yaml"
    /\ LET r == get_rbac_resource_from_yaml(rbac_yaml)
       IN  /\ rbac_warnings' = r.warnings
           /\ rbac_resources' = r.resources
           /\ IF r.out = "return"
              THEN /\ rbac_pc' = "generate_rbac_manifest"
                   /\ rbac_out' = rbac_out
              ELSE /\ rbac_pc' = "done"
                   /\ rbac_out' = [kind |-> r.out, at |-> "get_rbac_resource_from_yaml"]
    /\ UNCHANGED <<rbac_yaml, rbac_manifest, rbacOthers>>

\* rbac_manifests = generate_rbac_manifest(module, rbac_resources, postfix,
\* role_subject)
GenerateRbacManifest ==
    /\ rbac_pc = "generate_rbac_manifest"
    /\ LET r == generate_rbac_manifest(rbac_resources)
       IN  /\ rbac_warnings' = rbac_warnings \cup r.warnings
           /\ rbac_manifest' = r.manifest
           /\ rbac_out' = [kind |-> r.out, at |-> "generate_rbac_manifest"]
    /\ rbac_pc' = "done"
    /\ UNCHANGED <<rbac_yaml, rbac_resources, rbacOthers>>

NextRbac ==
    \/ GetRbacResourceFromYaml
    \/ GenerateRbacManifest

SpecRbac == InitRbac /\ [][NextRbac]_vars

\* The binding names the role: the same kind and name, and the same namespace
\* unless the role is a ClusterRole.
References(rolebinding, role) ==
    /\ rolebinding.ref_kind = role.kind
    /\ rolebinding.ref_name = role.name
    /\ role.kind = "ClusterRole" \/ rolebinding.namespace = role.namespace

\* The roles of rbac_resources that no binding of it references.
UnreferencedRoles(resources) ==
    {namespaced_name(Roles(resources)[i].namespace, Roles(resources)[i].name) :
        i \in {j \in 1..Len(Roles(resources)) :
                  \A k \in 1..Len(Bindings(resources)) :
                      ~References(Bindings(resources)[k], Roles(resources)[j])}}

GenerateWarnings == {w \in rbac_warnings : w[1] \in {"subjects", "unreferenced"}}

\* C17: generate_rbac_manifest returns every accepted resource once, named by
\* its template name, '-' and the postfix; it warns for every Role and
\* ClusterRole that no binding of the template references, gives no warning
\* when every role is referenced and no binding declares subjects, and calls
\* fail_json when there is no resource.
GenerateRbacManifestRenamesAndWarns ==
    (rbac_pc = "done" /\ rbac_out.at = "generate_rbac_manifest") =>
        LET all == rbac_resources.Role \o rbac_resources.ClusterRole
                     \o rbac_resources.RoleBinding \o rbac_resources.ClusterRoleBinding
        IN  /\ Len(rbac_manifest) = Len(all)
            /\ \A i \in 1..Len(all) :
                  /\ rbac_manifest[i].kind = all[i].kind
                  /\ rbac_manifest[i].namespace = all[i].namespace
                  /\ rbac_manifest[i].name = all[i].name \o <<"-">> \o Postfix
            /\ \A key \in UnreferencedRoles(rbac_resources) :
                  <<"unreferenced", key>> \in rbac_warnings
            /\ (UnreferencedRoles(rbac_resources) = {}
                   /\ \A k \in 1..Len(Bindings(rbac_resources)) :
                         ~Bindings(rbac_resources)[k].has_subjects)
                  => GenerateWarnings = {}
            /\ rbac_out.kind = (IF Len(all) = 0 THEN "fail_json" ELSE "return")

\* What the claim takes for an acceptable document.
Acceptable(resource) ==
    /\ resource.kind \in RbacKinds
    /\ resource.has_metadata
    /\ resource.name # << >>
    /\ resource.namespace # << >> <=> ~IsClusterKind(resource.kind)
    /\ IsBindingKind(resource.kind)
          => (resource.has_role_ref /\ resource.ref_kind # "" /\ resource.ref_name # << >>)

AcceptableDocs == {i \in 1..Len(rbac_yaml) : Acceptable(rbac_yaml[i])}

AllResources ==
    rbac_resources.Role \o rbac_resources.ClusterRole \o rbac_resources.RoleBinding
        \o rbac_resources.ClusterRoleBinding

\* C18: get_rbac_resource_from_yaml accepts a document if and only if its kind
\* is one of the four, it has a metadata.name, it has a metadata.namespace
\* exactly when its kind is not cluster-scoped, and a binding has roleRef.kind
\* and roleRef.name; every other document gets a warning and is left out while
\* the accepted ones are returned; fail_json is called when none is accepted.
\* Templates with two acceptable documents of the same kind and name are left
\* aside.
GetRbacResourceAcceptsWellFormed ==
    (/\ rbac_pc # "get_rbac_resource_from_yaml"
     /\ rbac_yaml # << >>
     /\ \A i, j \in AcceptableDocs :
           (i # j /\ rbac_yaml[i].kind = rbac_yaml[j].kind)
              => <<rbac_yaml[i].namespace, rbac_yaml[i].name>>
                    # <<rbac_yaml[j].namespace, rbac_yaml[j].name>>)
    => /\ rbac_out.at = "get_rbac_resource_from_yaml"
             => (rbac_out.kind = "fail_json" /\ AcceptableDocs = {})
       /\ rbac_out.at # "get_rbac_resource_from_yaml"
             => /\ AcceptableDocs # {}
                /\ {AllResources[k] : k \in 1..Len(AllResources)}
                      = {rbac_yaml[i] : i \in AcceptableDocs}
                /\ Len(AllResources) = Cardinality(AcceptableDocs)
       /\ {w \in rbac_warnings : w[1] = "ignored"}
             = {<<"ignored", i>> : i \in (1..Len(rbac_yaml)) \ AcceptableDocs}

\* ---------------------------------------------------------------------------
\* wait_for_addon_available (addon_utils.py and addon_base.py, the same code)
\* ---------------------------------------------------------------------------

Condition(type, status) == [type |-> type, status |-> status]

\* event["object"]["status"].get("conditions", [])
ConditionLists ==
    {<< >>,
     <<Condition("Available", "True")>>,
     <<Condition("Available", "False")>>,
     <<Condition("Degraded", "True")>>,
     <<Condition("Degraded", "True"), Condition("Available", "True")>>}

\* The events of the watch on the namespace of the managed cluster; "addon" is
\* addon_name.
WatchEvents ==
    {e \in [type : {"ADDED", "MODIFIED", "DELETED"}, name : {"addon", "other"},
            has_status : BOOLEAN, conditions : ConditionLists] :
        ~e.has_status => e.conditions = << >>}

\* The body of the loop over the events: TRUE when it returns True.
is_available_event(event) ==
    /\ event.type \in {"ADDED", "MODIFIED"}
    /\ event.name = "addon"
    /\ event.has_status
    /\ \E i \in 1..Len(event.conditions) :
          /\ event.conditions[i].type = "Available"
          /\ event.conditions[i].status = "True"

\* start_time = time.time()
InitWait ==
    /\ wait_timeout \in 0..MaxTimeout
    /\ wait_pc = "while"
    /\ wait_clock = 0
    /\ wait_watch_start = 0
    /\ wait_event = NoEvent
    /\ wait_result = FALSE
    /\ VerIdle
    /\ MchIdle
    /\ MceIdle
    /\ AddonIdle
    /\ PsIdle
    /\ PoolIdle
    /\ CompIdle
    /\ CsvIdle
    /\ ImpIdle
    /\ RbacIdle
    /\ InvIdle
    /\ FcIdle
    /\ FeatIdle

\* while time.time() - start_time < timeout: a watch is started with
\* timeout=timeout, or the loop ends and the function returns False.
WhileTest ==
    /\ wait_pc = "while"
    /\ IF wait_clock < wait_timeout
       THEN /\ wait_pc' = "watch"
            /\ wait_watch_start' = wait_clock
            /\ wait_result' = wait_result
       ELSE /\ wait_pc' = "done"
            /\ wait_result' = FALSE
            /\ wait_watch_start' = wait_watch_start
    /\ UNCHANGED <<wait_timeout, wait_clock, wait_event, waitOthers>>

\* The watch yields an event, d seconds after the last step and no later than
\* timeout seconds after the watch was started; the function returns True when
\* the event shows the addon Available.
WatchEvent ==
    /\ wait_pc = "watch"
    /\ \E d \in 0..1, event \in WatchEvents :
          /\ wait_clock + d - wait_watch_start <= wait_timeout
          /\ wait_clock' = wait_clock + d
          /\ wait_event' = event
          /\ IF is_available_event(event)
             THEN wait_pc' = "done" /\ wait_result' = TRUE
             ELSE wait_pc' = "watch" /\ wait_result' = wait_result
    /\ UNCHANGED <<wait_timeout, wait_watch_start, waitOthers>>

\* The watch ends: the server closes the stream, timeout seconds after the
\* watch was started at the latest.
WatchEnds ==
    /\ wait_pc = "watch"
    /\ \E d \in 0..1 :
          /\ wait_clock + d - wait_watch_start <= wait_timeout
          /\ wait_clock' = wait_clock + d
    /\ wait_pc' = "while"
    /\ UNCHANGED <<wait_timeout, wait_watch_start, wait_event, wait_result, waitOthers>>

NextWait ==
    \/ WhileTest
    \/ WatchEvent
    \/ WatchEnds

SpecWait == InitWait /\ [][NextWait]_vars

\* C19: wait_for_addon_available returns True as soon as an ADDED or MODIFIED
\* event of the named addon has an Available condition of status 'True', and
\* it returns, True or False, no later than timeout seconds after it was
\* called, whatever the number and the duration of the watch calls.
WaitEndsWithinTimeout ==
    /\ wait_pc # "done" => ~is_available_event(wait_event)
    /\ wait_pc = "done" =>
          /\ wait_result <=> is_available_event(wait_event)
          /\ wait_clock <= wait_timeout

\* ---------------------------------------------------------------------------
\* ocm_managedcluster inventory plugin: setup and populate
\* ---------------------------------------------------------------------------

\* The managed clusters of the hub, in the order in which the API lists them;
\* the first one is the hub itself (label name=local-cluster).
ClusterOrder == <<"local-cluster", "a", "b">>

ClusterNames == {ClusterOrder[i] : i \in 1..Len(ClusterOrder)}

\* cluster_group.get("name"); "" stands for a group without a name.
GroupNames == {"hub", "a", "g", ""}

\* A cluster group: its name and the clusters that its label selectors select.
ClusterGroups == [name : GroupNames, selected : SUBSET ClusterNames]

\* fetch_clusters(label_selectors): the selected clusters, in the order of the
\* API.
fetch_clusters(selected) ==
    LET Test(c) == c \in selected IN SelectSeq(ClusterOrder, Test)

\* self.get_option("cluster_groups") or []
InitInv ==
    /\ inv_cluster_groups \in UNION {[1..n -> ClusterGroups] : n \in 0..MaxGroups}
    /\ inv_pc = "setup"
    /\ inv_i = 1
    /\ inv_j = 1
    /\ inv_groups = BuiltinGroups
    /\ inv_hosts = {}
    /\ inv_members = {}
    /\ VerIdle
    /\ MchIdle
    /\ MceIdle
    /\ AddonIdle
    /\ PsIdle
    /\ PoolIdle
    /\ CompIdle
    /\ CsvIdle
    /\ ImpIdle
    /\ RbacIdle
    /\ WaitIdle
    /\ FcIdle
    /\ FeatIdle

\* setup: the hub cluster becomes a host of the group "hub".
Setup ==
    /\ inv_pc = "setup"
    /\ LET hub_host_name == fetch_clusters({"local-cluster"})[1]
       IN  /\ inv_groups' = inv_groups \cup {"hub"}
           /\ inv_hosts' = inv_hosts \cup {hub_host_name}
           /\ inv_members' = inv_members \cup {<<"hub", hub_host_name>>}
    /\ inv_pc' = "populate"
    /\ UNCHANGED <<inv_cluster_groups, inv_i, inv_j, invOthers>>

\* populate, the head of the loop over cluster_groups: a group named "hub"
\* raises AnsibleError; after the last group populate returns.
PopulateGroup ==
    /\ inv_pc = "populate"
    /\ IF inv_i > Len(inv_cluster_groups)
       THEN inv_pc' = "done"
       ELSE IF inv_cluster_groups[inv_i].name = "hub"
            THEN inv_pc' = "AnsibleError"
            ELSE inv_pc' = "clusters"
    /\ inv_j' = 1
    /\ UNCHANGED <<inv_cluster_groups, inv_i, inv_groups, inv_hosts, inv_members,
                   invOthers>>

\* populate, one pass of the loop over the clusters of the group.
PopulateHost ==
    /\ inv_pc = "clusters"
    /\ LET group_name == inv_cluster_groups[inv_i].name
           clusters == fetch_clusters(inv_cluster_groups[inv_i].selected)
       IN  IF inv_j > Len(clusters)
           THEN /\ inv_pc' = "populate"
                /\ inv_i' = inv_i + 1
                /\ UNCHANGED <<inv_j, inv_groups, inv_hosts, inv_members>>
           ELSE LET host_name == clusters[inv_j]
                IN  IF host_name \in inv_groups \/ host_name = group_name
                    THEN /\ inv_pc' = "AnsibleParserError"
                         /\ UNCHANGED <<inv_i, inv_j, inv_groups, inv_hosts,
                                        inv_members>>
                    ELSE /\ inv_hosts' = inv_hosts \cup {host_name}
                         /\ IF group_name # ""
                            THEN /\ inv_groups' = inv_groups \cup {group_name}
                                 /\ inv_members' =
                                       inv_members \cup {<<group_name, host_name>>}
                            ELSE UNCHANGED <<inv_groups, inv_members>>
                         /\ inv_j' = inv_j + 1
                         /\ UNCHANGED <<inv_pc, inv_i>>
    /\ UNCHANGED <<inv_cluster_groups, invOthers>>

NextInv ==
    \/ Setup
    \/ PopulateGroup
    \/ PopulateHost

SpecInv == InitInv /\ [][NextInv]_vars

\* C20: populate raises an error when a cluster group is named 'hub', and
\* after populate has returned no host of the inventory has the name of a
\* group of the inventory.
HostsDifferFromGroups ==
    inv_pc = "done" =>
        /\ \A i \in 1..Len(inv_cluster_groups) : inv_cluster_groups[i].name # "hub"
        /\ inv_hosts \cap inv_groups = {}

\* ---------------------------------------------------------------------------
\* ocm_managedcluster inventory plugin: the cache of fetch_clusters
\* ---------------------------------------------------------------------------

\* The cache keys of the label selectors that one parse asks for.
CacheKeys == {"k1", "k2"}

\* A cache entry holds nothing ("absent"), the clusters stored by an earlier
\* parse ("cached"), or the clusters that the API lists now ("listed").

\* parse: attempt_to_read_cache = user_cache_setting and cache
attempt_to_read_cache(user_cache_setting, cache) == user_cache_setting /\ cache

\* parse: cache_needs_update = user_cache_setting and not cache
cache_needs_update(user_cache_setting, cache) == user_cache_setting /\ ~cache

\* The cache of the plugin and the arguments at the start of parse.
InitFc ==
    /\ fc_user_cache_setting \in BOOLEAN
    /\ fc_cache_arg \in BOOLEAN
    /\ fc_attempt_to_read_cache = FALSE
    /\ fc_cache_needs_update = FALSE
    /\ fc_cache \in [CacheKeys -> {"absent", "cached"}]
    /\ fc_pc = "parse"
    /\ fc_calls = 0
    /\ fc_last = NoFetch
    /\ VerIdle
    /\ MchIdle
    /\ MceIdle
    /\ AddonIdle
    /\ PsIdle
    /\ PoolIdle
    /\ CompIdle
    /\ CsvIdle
    /\ ImpIdle
    /\ RbacIdle
    /\ WaitIdle
    /\ InvIdle
    /\ FeatIdle

\* parse, up to the call of setup.
Parse ==
    /\ fc_pc = "parse"
    /\ fc_attempt_to_read_cache' =
          attempt_to_read_cache(fc_user_cache_setting, fc_cache_arg)
    /\ fc_cache_needs_update' = cache_needs_update(fc_user_cache_setting, fc_cache_arg)
    /\ fc_pc' = "fetch"
    /\ UNCHANGED <<fc_user_cache_setting, fc_cache_arg, fc_cache, fc_calls, fc_last,
                   fcOthers>>

\* fetch_clusters for the label selectors of cache key k; api_ok says whether
\* resource_api.get succeeds.
FetchClusters(k, api_ok) ==
    /\ fc_pc = "fetch"
    /\ fc_calls < MaxCalls
    /\ LET present == fc_cache[k] # "absent"
           read == fc_attempt_to_read_cache
           needs_update == fc_cache_needs_update \/ (read /\ ~present)
           queried == needs_update \/ ~fc_attempt_to_read_cache
           raised == queried /\ ~api_ok
           clusters == IF queried THEN "listed" ELSE fc_cache[k]
           wrote == needs_update /\ ~raised
       IN  /\ fc_cache_needs_update' = needs_update
           /\ fc_cache' = IF wrote THEN [fc_cache EXCEPT ![k] = clusters] ELSE fc_cache
           /\ fc_pc' = IF raised THEN "AnsibleError" ELSE "fetch"
           /\ fc_last' = [key |-> k, present |-> present, cached |-> fc_cache[k],
                          read |-> read, queried |-> queried, wrote |-> wrote,
                          returned |-> IF raised THEN "AnsibleError" ELSE clusters]
    /\ fc_calls' = fc_calls + 1
    /\ UNCHANGED <<fc_user_cache_setting, fc_cache_arg, fc_attempt_to_read_cache,
                   fcOthers>>

\* parse returns after the last call.
ParseReturns ==
    /\ fc_pc = "fetch"
    /\ fc_pc' = "done"
    /\ UNCHANGED <<fc_user_cache_setting, fc_cache_arg, fc_attempt_to_read_cache,
                   fc_cache_needs_update, fc_cache, fc_calls, fc_last, fcOthers>>

NextFc ==
    \/ Parse
    \/ \E k \in CacheKeys, api_ok \in BOOLEAN : FetchClusters(k, api_ok)
    \/ ParseReturns

SpecFc == InitFc /\ [][NextFc]_vars

\* C21: with the option cache set and the cache not refreshed, a call of
\* fetch_clusters whose key is in the cache returns the cached clusters and
\* does not query the API, and a call whose key is missing queries the API and
\* stores the clusters under the key; with the option cache unset no call
\* reads or writes the cache.
FetchClustersReadsCache ==
    fc_last.key # "none" =>
        /\ (fc_user_cache_setting /\ fc_cache_arg /\ fc_last.present) =>
              /\ ~fc_last.queried
              /\ fc_last.returned = fc_last.cached
              /\ fc_cache[fc_last.key] = fc_last.cached
        /\ (fc_user_cache_setting /\ fc_cache_arg /\ ~fc_last.present) =>
              /\ fc_last.queried
              /\ fc_last.returned # "AnsibleError" => fc_cache[fc_last.key] = "listed"
        /\ ~fc_user_cache_setting => (~fc_last.read /\ ~fc_last.wrote)

\* ---------------------------------------------------------------------------
\* cluster_management_addon: enable_feature and disable_feature of
\* managed_serviceaccount
\* ---------------------------------------------------------------------------

\* self.component_name ('managedserviceaccount-preview'), as a name of
\* ComponentNames.
component_name == "a"

Entry(name, enabled) == NewComponent(name, enabled)

\* The CRs of the hub as to_dict() gives them: every object with at most one
\* component, and some with two.
FeatObjects ==
    {o \in CompObjects : o.obj = "dict" /\ Len(o.l) <= 1}
    \cup {DictObj("dict", "dict", "list", << >>, l) :
            l \in {<<Entry("a", FALSE), Entry("a", TRUE)>>,
                   <<Entry("a", TRUE), Entry("a", FALSE)>>,
                   <<Entry("b", TRUE), Entry("a", FALSE)>>,
                   <<Entry("b", FALSE), Entry("a", TRUE)>>,
                   <<Entry("a", FALSE), NotADict>>,
                   <<Entry("a", TRUE), NotADict>>}}

FeatArgs == [state : {"present", "absent"}, wait : BOOLEAN]

\* enabled = True if state == 'present' else False
enabled_of(state) == state = "present"

\* The test of disable_feature used by enable_feature too.
needs_updateDisableTest(enabled, status) == status

\* enable_feature: if not get_component_status(...); disable_feature: if
\* get_component_status(...)
needs_update(enabled, status) == IF enabled THEN ~status ELSE status

\* What the part of enable_feature or disable_feature for one CR does: how it
\* ends, whether it patches, and the body of the patch.
update_feature(cr, enabled, patch_ok) ==
    LET status == get_component_status(cr, component_name)
    IN  IF status.out # "return" THEN [out |-> status.out, patch |-> FALSE, body |-> cr]
        ELSE IF ~needs_update(enabled, status.value)
             THEN [out |-> "return", patch |-> FALSE, body |-> cr]
        ELSE LET r == set_component_status(cr, component_name, enabled)
             IN  IF r.out # "return" THEN [out |-> r.out, patch |-> FALSE, body |-> cr]
                 ELSE IF patch_ok THEN [out |-> "return", patch |-> TRUE, body |-> r.obj]
                 ELSE [out |-> "AttributeError", patch |-> FALSE, body |-> cr]

InitFeat ==
    /\ feat_mce \in FeatObjects \cup {NoneObj}
    /\ feat_mch \in FeatObjects \cup {NoneObj}
    /\ feat_args \in FeatArgs
    /\ feat_pc = "mce"
    /\ feat_run = NoRun
    /\ feat_log = << >>
    /\ VerIdle
    /\ MchIdle
    /\ MceIdle
    /\ AddonIdle
    /\ PsIdle
    /\ PoolIdle
    /\ CompIdle
    /\ CsvIdle
    /\ ImpIdle
    /\ RbacIdle
    /\ WaitIdle
    /\ InvIdle
    /\ FcIdle

\* enable_feature and disable_feature, the MultiClusterEngine: fail_json when
\* there is none; the patch is accepted or ends in DynamicApiError, whose
\* handler reads mce.metadata of a dict.
FeatureMce(patch_ok) ==
    /\ feat_pc = "mce"
    /\ IF feat_mce = NoneObj
       THEN /\ feat_pc' = "fail_json"
            /\ UNCHANGED <<feat_mce, feat_run>>
       ELSE LET r == update_feature(feat_mce, enabled_of(feat_args.state), patch_ok)
            IN  /\ feat_pc' = IF r.out = "return" THEN "mch" ELSE r.out
                /\ feat_mce' = IF r.patch THEN r.body ELSE feat_mce
                /\ feat_run' = [changed |-> r.patch,
                                patched |-> IF r.patch THEN {"mce"} ELSE {},
                                mce |-> feat_mce, mch |-> feat_mch]
    /\ UNCHANGED <<feat_mch, feat_args, feat_log, featOthers>>

\* enable_feature and disable_feature, the MultiClusterHub when there is one.
FeatureMch(patch_ok) ==
    /\ feat_pc = "mch"
    /\ LET next == IF enabled_of(feat_args.state) /\ feat_args.wait
                   THEN "wait" ELSE "exit_json"
       IN  IF feat_mch = NoneObj
           THEN /\ feat_pc' = next
                /\ UNCHANGED <<feat_mch, feat_run>>
           ELSE LET r == update_feature(feat_mch, enabled_of(feat_args.state), patch_ok)
                IN  /\ feat_pc' = IF r.out = "return" THEN next ELSE r.out
                    /\ feat_mch' = IF r.patch THEN r.body ELSE feat_mch
                    /\ feat_run' =
                          [feat_run EXCEPT
                              !.changed = @ \/ r.patch,
                              !.patched = IF r.patch THEN @ \cup {"mch"} ELSE @]
    /\ UNCHANGED <<feat_mce, feat_args, feat_log, featOthers>>

\* enable_feature with wait: the ClusterManagementAddOn is there, or comes in
\* time, or fail_json is called.
FeatureWait(in_time) ==
    /\ feat_pc = "wait"
    /\ feat_pc' = IF in_time THEN "exit_json" ELSE "fail_json"
    /\ UNCHANGED <<feat_mce, feat_mch, feat_args, feat_run, feat_log, featOthers>>

\* module.exit_json(changed=changed, ...)
FeatureExitJson ==
    /\ feat_pc = "exit_json"
    /\ feat_log' = Append(feat_log, feat_run)
    /\ feat_pc' = "done"
    /\ UNCHANGED <<feat_mce, feat_mch, feat_args, feat_run, featOthers>>

\* The module is run again with the same parameters on the hub as the run
\* before has left it.
RunFeatureAgain ==
    /\ feat_pc = "done"
    /\ Len(feat_log) < MaxRuns
    /\ feat_pc' = "mce"
    /\ feat_run' = NoRun
    /\ UNCHANGED <<feat_mce, feat_mch, feat_args, feat_log, featOthers>>

NextFeat ==
    \/ \E patch_ok \in BOOLEAN : FeatureMce(patch_ok)
    \/ \E patch_ok \in BOOLEAN : FeatureMch(patch_ok)
    \/ \E in_time \in BOOLEAN : FeatureWait(in_time)
    \/ FeatureExitJson
    \/ RunFeatureAgain

SpecFeat == InitFeat /\ [][NextFeat]_vars

\* The component is enabled in a CR: the first entry of its name in
\* spec.overrides.components has enabled set to true.
IsEnabledIn(cr) ==
    /\ cr.obj = "dict" /\ cr.spec = "dict" /\ cr.overrides = "dict"
    /\ cr.components = "list"
    /\ \E i \in 1..Len(cr.l) :
          /\ cr.l[i].dict /\ cr.l[i].has_name /\ cr.l[i].name = component_name
          /\ cr.l[i].has_enabled /\ cr.l[i].enabled
          /\ \A j \in 1..(i - 1) : ~(cr.l[j].has_name /\ cr.l[j].name = component_name)

\* The CRs that a run has to patch to reach the state.
ToPatch(run) ==
    {c \in {"mce"} : IsEnabledIn(run.mce) # enabled_of(feat_args.state)}
    \cup {c \in {"mch"} : /\ run.mch # NoneObj
                          /\ IsEnabledIn(run.mch) # enabled_of(feat_args.state)}

\* C22: a run of enable_feature (disable_feature) that ends reports changed
\* if and only if the component was not already enabled (disabled) in the
\* MultiClusterEngine or in the MultiClusterHub when there is one, and it
\* patches those CRs and no other; a second run of the same state reports no
\* change and sends no patch.
FeatureChangedIffPatched ==
    /\ \A i \in 1..Len(feat_log) :
          /\ feat_log[i].patched = ToPatch(feat_log[i])
          /\ feat_log[i].changed <=> ToPatch(feat_log[i]) # {}
    /\ \A i \in 2..Len(feat_log) :
          ~feat_log[i].changed /\ feat_log[i].patched = {}

\* A first run has patched both CRs and a second run has ended.
FeatureSecondRunCase ==
    /\ Len(feat_log) = 2
    /\ feat_log[1].patched = {"mce", "mch"}
    /\ feat_log[1].changed
    /\ ~feat_log[2].changed

====
